---- MODULE Spec2Model ----
(***************************************************************************)
(* Project Pulse Bot: the per-user conversation state machine, the         *)
(* scheduled outreach, the reminder sweep and the risk evaluator, over the *)
(* users, conversations and updates tables.                                *)
(*                                                                         *)
(* Time is counted in whole hours.  A JavaScript value that may be absent  *)
(* is encoded in the type of its field: "undefined" / "null" for strings   *)
(* and booleans, UndefI / NullI for numbers, gids, names and timestamps,   *)
(* and the empty sequence for an absent pendingProjects (the code never    *)
(* stores an empty queue and reads an absent one as empty).                *)
(***************************************************************************)
EXTENDS Bags, Integers, Sequences, FiniteSets, TLC

\* ---------------------------------------------------------------- bounds
NProj == 2
MaxTime == 1
MaxPrior == 2
\* The projects a workspace lists as not archived, in the batch model.
NListed == 11

\* ------------------------------------------------------ program constants
ReminderThreshold == 1
SnoozeDuration == 1
StateTtl == 1
HoursPerDay == 24
PageSize == 5

UndefI == 0 - 1
NullI == 0 - 2
\* An invocation that ended with an uncaught exception returned no status code.
Thrown == 0 - 3

AllUsers == {"U1", "U2"}
Gids == 1..NProj
Statuses == {"on_track", "at_risk", "off_track"}
BlockerValues == {"yes", "no"}
PmoChannel == "PMO"

\* The update-flow steps of CONVERSATION_STEPS.
UpdateSteps ==
  {"awaiting_status", "awaiting_blockers", "awaiting_blocker_description",
   "awaiting_advances"}

isInUpdateFlow(state) == state.exists /\ state.step \in UpdateSteps

\* ---------------------------------------------------------- project cache
\* The projects as the source names and numbers them: the last one carries
\* no PMO id.
Name(g) == 100 + g
PmoNumber(g) == IF g = NProj THEN NullI ELSE 10 * (NProj - g)

\* The project cache holds no record of the project.
NoProject ==
  [exists |-> FALSE, name |-> UndefI, responsable |-> "undefined",
   status |-> "undefined", pmoId |-> UndefI]

\* The cache in which every project is on track and belongs to "N".
FullCache ==
  [g \in Gids |->
     [exists |-> TRUE, name |-> Name(g), responsable |-> "N",
      status |-> "On Track", pmoId |-> PmoNumber(g)]]

\* The cache in which "N" has the first project only.
SoloCache ==
  [g \in Gids |-> IF g = 1 THEN FullCache[g]
                  ELSE [FullCache[g] EXCEPT !.responsable = "other"]]

\* No refresh has returned a summary yet.
NoSummary ==
  [totalProjects |-> UndefI, updated |-> UndefI, deleted |-> UndefI, skipped |-> UndefI]

\* ------------------------------------------------------------- the records
\* The conversations table holds no item for the user; also the empty object.
NoState ==
  [exists |-> FALSE, step |-> "undefined", pendingProjects |-> <<>>,
   currentIndex |-> UndefI, currentProjectGid |-> UndefI,
   currentProjectName |-> UndefI, currentProjectPmoId |-> UndefI,
   status |-> "undefined", hasBlockers |-> "undefined",
   blockerDescription |-> "undefined", lastPromptAt |-> UndefI,
   snoozeUntil |-> UndefI, cleared |-> "undefined",
   slackUserId |-> "undefined", expiresAt |-> UndefI,
   searchResults |-> UndefI, searchPage |-> UndefI, lastProjectAt |-> UndefI]

\* { ...a, ...b }: a key of b wins when b has it.
Spread(a, b) ==
  [exists |-> a.exists \/ b.exists,
   step |-> IF b.step = "undefined" THEN a.step ELSE b.step,
   pendingProjects |->
     IF b.pendingProjects = <<>> THEN a.pendingProjects ELSE b.pendingProjects,
   currentIndex |-> IF b.currentIndex = UndefI THEN a.currentIndex ELSE b.currentIndex,
   currentProjectGid |->
     IF b.currentProjectGid = UndefI THEN a.currentProjectGid ELSE b.currentProjectGid,
   currentProjectName |->
     IF b.currentProjectName = UndefI THEN a.currentProjectName ELSE b.currentProjectName,
   currentProjectPmoId |->
     IF b.currentProjectPmoId = UndefI THEN a.currentProjectPmoId
     ELSE b.currentProjectPmoId,
   status |-> IF b.status = "undefined" THEN a.status ELSE b.status,
   hasBlockers |-> IF b.hasBlockers = "undefined" THEN a.hasBlockers ELSE b.hasBlockers,
   blockerDescription |->
     IF b.blockerDescription = "undefined" THEN a.blockerDescription
     ELSE b.blockerDescription,
   lastPromptAt |-> IF b.lastPromptAt = UndefI THEN a.lastPromptAt ELSE b.lastPromptAt,
   snoozeUntil |-> IF b.snoozeUntil = UndefI THEN a.snoozeUntil ELSE b.snoozeUntil,
   cleared |-> IF b.cleared = "undefined" THEN a.cleared ELSE b.cleared,
   slackUserId |-> IF b.slackUserId = "undefined" THEN a.slackUserId ELSE b.slackUserId,
   expiresAt |-> IF b.expiresAt = UndefI THEN a.expiresAt ELSE b.expiresAt,
   searchResults |->
     IF b.searchResults = UndefI THEN a.searchResults ELSE b.searchResults,
   searchPage |-> IF b.searchPage = UndefI THEN a.searchPage ELSE b.searchPage,
   lastProjectAt |->
     IF b.lastProjectAt = UndefI THEN a.lastProjectAt ELSE b.lastProjectAt]

\* x || null
OrNull(x) == IF x = UndefI THEN NullI ELSE x
Defined(x) == x # UndefI /\ x # NullI

NoUser ==
  [exists |-> FALSE, asanaName |-> "undefined", timezone |-> "undefined",
   onboarded |-> "undefined", asanaEmail |-> "undefined"]

VARIABLES
  now,        \* the wall clock, in hours
  users,      \* the users table: slack user id -> item
  conv,       \* the conversations table: slack user id -> item
  updates,    \* the updates table: a set of items keyed by (pk, sk)
  saves,      \* number of saveUpdate calls made so far
  closedAt,   \* per user, the clock reading of the last cycle the user closed
  pulsed,     \* the scheduled pulse of the day has run
  risk,       \* an evaluation of the risk detector: its inputs and its result
  cache,      \* the project cache: gid -> record
  summary,    \* the counts the last cache refresh returned
  reported,   \* what the project source reported in the last cache refresh
  returned,   \* how the last invocation of a handler ended: its status code
  inflight,   \* the button invocations that run side by side
  call,       \* one call to the project source and its retries
  cycle,      \* the fetch of a cache refresh, step by step
  batch,      \* the detail calls of the batch in progress
  prompted,   \* per user, the gids whose update request (buttons) was sent
  tzPrompted, \* per user, whether a time-zone prompt (buttons) was sent
  sent,       \* the messages sent by the last invocation, in order
  population, \* the slack users that interact with the bot
  texts,      \* the kinds of message text the users write
  choices     \* the status buttons the users click

vars ==
  <<now, users, conv, updates, saves, closedAt, pulsed, prompted, tzPrompted, sent, population, texts,
    choices, risk, cache, summary, reported, returned, inflight, call, cycle, batch>>

Msg(to, kind, gid) == [to |-> to, kind |-> kind, gid |-> gid]

\* getProjectsByResponsableName: the cached projects of that responsable.
getProjectsByResponsableName(asanaName) ==
  LET all == [g \in Gids |->
                [gid |-> g, name |-> cache[g].name, pmoId |-> cache[g].pmoId,
                 status |-> cache[g].status]]
      mine(p) == cache[p.gid].exists /\ cache[p.gid].responsable = asanaName
  IN SelectSeq(all, mine)

\* ------------------------------------------------------------ store: users
\* A put that stores the fields it is given and nothing for the others.
saveUserAsGiven(userData) ==
  [exists |-> TRUE, asanaName |-> "undefined",
   timezone |-> userData.timezone,
   onboarded |-> userData.onboarded,
   asanaEmail |-> userData.asanaEmail]

\* saveUser: a full put; absent optional fields are stored as defaults.
saveUser(userData) ==
  [exists |-> TRUE, asanaName |-> "undefined",
   timezone |-> IF userData.timezone = "undefined" THEN "null" ELSE userData.timezone,
   onboarded |-> IF userData.onboarded = "true" THEN "true" ELSE "false",
   asanaEmail |-> IF userData.asanaEmail = "undefined" THEN "null"
                  ELSE userData.asanaEmail]

\* updateUser: SET of the given fields on the item with that key; the item
\* is created when the table holds none.
updateUser(item, changes) ==
  [exists |-> TRUE,
   asanaName |-> IF changes.asanaName # "undefined" THEN changes.asanaName
                 ELSE item.asanaName,
   timezone |-> IF changes.timezone # "undefined" THEN changes.timezone
                ELSE item.timezone,
   onboarded |-> IF changes.onboarded # "undefined" THEN changes.onboarded
                 ELSE item.onboarded,
   asanaEmail |-> item.asanaEmail]

\* The object handleOnboarding hands to saveUser, but for its onboarded flag:
\* the keys it does not set are undefined.
NewUser == [timezone |-> "undefined", onboarded |-> "undefined", asanaEmail |-> "undefined"]

\* dynamo.getUser: the item with that key (NoUser stands for null).
getUser(table, slackUserId) == table[slackUserId]

UserChanges == [asanaName |-> "undefined", timezone |-> "undefined", onboarded |-> "undefined"]

\* ---------------------------------------------------- store: conversations
\* A put that stores the object as it is handed over, without a new expiry.
dynamoSetConversationStateNoTtl(state, t) ==
  [state EXCEPT !.exists = TRUE]

\* dynamo.setConversationState: a full put of the object with a one-hour TTL.
dynamoSetConversationState(state, t) ==
  [state EXCEPT !.exists = TRUE, !.expiresAt = t + StateTtl]

\* dynamo.clearConversationState: overwrite with the terminal marker.
clearConversationState(t) ==
  dynamoSetConversationState([NoState EXCEPT !.cleared = "true"], t)

\* conversation-state.setConversationState: read, merge, put.  (startedAt and
\* updatedAt are bookkeeping no handler reads; they are not carried.)
setConversationState(cur, state, u, t) ==
  dynamoSetConversationState([Spread(cur, state) EXCEPT !.slackUserId = u], t)

\* ---------------------------------------------------------- store: updates
UpdateItem(gid, t, u, status, hasBlockers, text) ==
  [pk |-> gid, sk |-> t, pmSlackId |-> u, status |-> status,
   hasBlockers |-> hasBlockers, advances |-> text]

\* saveUpdate: an unconditional put under the key (PROJECT#gid, UPDATE#timestamp).
saveUpdate(table, item) ==
  {x \in table : ~(x.pk = item.pk /\ x.sk = item.sk)} \cup {item}

RECURSIVE NewestFirst(_, _)
NewestFirst(S, limit) ==
  IF limit = 0 \/ S = {} THEN <<>>
  ELSE LET x == CHOOSE y \in S : \A z \in S : z.sk <= y.sk
       IN <<x>> \o NewestFirst(S \ {x}, limit - 1)

\* getLastUpdates: the project's items, sort key descending, at most limit.
getLastUpdates(table, gid, limit) ==
  NewestFirst({x \in table : x.pk = gid}, limit)

Day(t) == t \div HoursPerDay

\* getProjectsUpdatedToday: the gids with an item whose sort key is of today.
getProjectsUpdatedToday(table, t) ==
  {x.pk : x \in {y \in table : Day(y.sk) = Day(t)}}

\* A detector that looks for an at_risk report anywhere in the previous updates.
shouldAlertAnyPrior(currentUpdate, previousUpdates) ==
  IF currentUpdate.status = "off_track"
  THEN [shouldAlert |-> TRUE, reason |-> "off_track"]
  ELSE IF /\ currentUpdate.status = "at_risk"
          /\ \E i \in 1..Len(previousUpdates) : previousUpdates[i].status = "at_risk"
  THEN [shouldAlert |-> TRUE, reason |-> "consecutive_at_risk"]
  ELSE IF currentUpdate.hasBlockers = "true" /\ currentUpdate.status # "on_track"
  THEN [shouldAlert |-> TRUE, reason |-> "blocker_on_risk"]
  ELSE [shouldAlert |-> FALSE, reason |-> "null"]

\* ----------------------------------------------------------- risk detector
shouldAlert(currentUpdate, previousUpdates) ==
  IF currentUpdate.status = "off_track"
  THEN [shouldAlert |-> TRUE, reason |-> "off_track"]
  ELSE IF /\ currentUpdate.status = "at_risk"
          /\ Len(previousUpdates) > 0
          /\ previousUpdates[1].status = "at_risk"
  THEN [shouldAlert |-> TRUE, reason |-> "consecutive_at_risk"]
  ELSE IF currentUpdate.hasBlockers = "true" /\ currentUpdate.status # "on_track"
  THEN [shouldAlert |-> TRUE, reason |-> "blocker_on_risk"]
  ELSE [shouldAlert |-> FALSE, reason |-> "null"]

\* ------------------------------------------------------- message text kinds
\* The texts the users write, by what the handler's tests make of them.
AllTexts ==
  {"ayuda", "reset", "mis proyectos", "mas tarde", "cuando termina",
   "siguiente", "1", "proyecto acme", "PMO-911", "all good"}

isSnoozeCommand(text) == text = "mas tarde"
isProjectEndDateQuestion(text) == text = "cuando termina"
isNextPageCommand(text) == text = "siguiente"
parseSelectionNumber(text) == IF text = "1" THEN 1 ELSE NullI
extractSearchQuery(text) == IF text = "proyecto acme" THEN "acme" ELSE "null"
PmoIdMatch(text) == text = "PMO-911"
\* text.trim().length
TrimLength(text) == IF text = "1" THEN 1 ELSE 2
\* the name a text stands for in the project source
AsanaNameOf(text) == IF text = "all good" THEN "N" ELSE "other"

\* searchProjects: how many projects the cache search returns.
ResultCounts == {0, 1, 6}

\* An advance that steps over the next entry of the queue.
advanceToNextProjectSkipping(cur, state, u, t) ==
  LET pending == state.pendingProjects
      currentIndex == IF state.currentIndex >= 0 THEN state.currentIndex ELSE 0
      nextIndex == currentIndex + 2
  IN IF nextIndex >= Len(pending)
     THEN [advanced |-> FALSE, conv |-> cur, msgs |-> <<>>]
     ELSE LET next == pending[nextIndex + 1]
          IN [advanced |-> TRUE,
              conv |-> setConversationState(cur,
                         [state EXCEPT
                            !.step = "awaiting_status",
                            !.currentIndex = nextIndex,
                            !.currentProjectGid = next.gid,
                            !.currentProjectName = next.name,
                            !.currentProjectPmoId = OrNull(next.pmoId),
                            !.status = "null",
                            !.hasBlockers = "null",
                            !.blockerDescription = "null",
                            !.lastPromptAt = t,
                            !.snoozeUntil = NullI],
                         u, t),
              msgs |-> <<Msg(u, "update_request", next.gid)>>]

\* ------------------------------------------------- advance to next project
\* advanceToNextProject of slack-events.js: the stored item after the call,
\* whether it advanced, and what it sent.
advanceToNextProject(cur, state, u, t) ==
  LET pending == state.pendingProjects
      currentIndex == IF state.currentIndex >= 0 THEN state.currentIndex ELSE 0
      nextIndex == currentIndex + 1
  IN IF nextIndex >= Len(pending)
     THEN [advanced |-> FALSE, conv |-> cur, msgs |-> <<>>]
     ELSE LET next == pending[nextIndex + 1]
          IN [advanced |-> TRUE,
              conv |-> setConversationState(cur,
                         [state EXCEPT
                            !.step = "awaiting_status",
                            !.currentIndex = nextIndex,
                            !.currentProjectGid = next.gid,
                            !.currentProjectName = next.name,
                            !.currentProjectPmoId = OrNull(next.pmoId),
                            !.status = "null",
                            !.hasBlockers = "null",
                            !.blockerDescription = "null",
                            !.lastPromptAt = t,
                            !.snoozeUntil = NullI],
                         u, t),
              msgs |-> <<Msg(u, "update_request", next.gid)>>]

\* An advance that keeps the answers collected for the previous project.
advanceKeepingAnswers(cur, state, u, t) ==
  LET pending == state.pendingProjects
      currentIndex == IF state.currentIndex >= 0 THEN state.currentIndex ELSE 0
      nextIndex == currentIndex + 1
  IN IF nextIndex >= Len(pending)
     THEN [advanced |-> FALSE, conv |-> cur, msgs |-> <<>>]
     ELSE LET next == pending[nextIndex + 1]
          IN [advanced |-> TRUE,
              conv |-> setConversationState(cur,
                         [state EXCEPT
                            !.step = "awaiting_status",
                            !.currentIndex = nextIndex,
                            !.currentProjectGid = next.gid,
                            !.currentProjectName = next.name,
                            !.currentProjectPmoId = OrNull(next.pmoId),
                            !.lastPromptAt = t,
                            !.snoozeUntil = NullI],
                         u, t),
              msgs |-> <<Msg(u, "update_request", next.gid)>>]

\* advanceToNextProject of reminder.js: the stored item after the call,
\* whether it advanced, and what it sent.
reminderAdvanceToNextProject(cur, state, slackUserId, t) ==
  LET pending == state.pendingProjects
      currentIndex == IF state.currentIndex >= 0 THEN state.currentIndex ELSE 0
      nextIndex == currentIndex + 1
  IN IF nextIndex >= Len(pending)
     THEN [advanced |-> FALSE, conv |-> cur, msgs |-> <<>>]
     ELSE LET next == pending[nextIndex + 1]
          IN [advanced |-> TRUE,
              conv |-> setConversationState(cur,
                         [state EXCEPT
                            !.step = "awaiting_status",
                            !.currentIndex = nextIndex,
                            !.currentProjectGid = next.gid,
                            !.currentProjectName = next.name,
                            !.currentProjectPmoId = OrNull(next.pmoId),
                            !.status = "null",
                            !.hasBlockers = "null",
                            !.blockerDescription = "null",
                            !.lastPromptAt = t,
                            !.snoozeUntil = NullI],
                         slackUserId, t),
              msgs |-> <<Msg(slackUserId, "update_request", next.gid)>>]

\* reminder.js: advance, or clear when the queue is exhausted
reminderAdvanceOrClear(cur, state, slackUserId, t) ==
  LET r == reminderAdvanceToNextProject(cur, state, slackUserId, t)
  IN IF r.advanced THEN r
     ELSE [advanced |-> FALSE, conv |-> clearConversationState(t), msgs |-> <<>>]

\* advance, or clear when the queue is exhausted
AdvanceOrClear(cur, state, u, t) ==
  LET r == advanceToNextProject(cur, state, u, t)
  IN IF r.advanced THEN r
     ELSE [advanced |-> FALSE, conv |-> clearConversationState(t), msgs |-> <<>>]

\* ------------------------------------------------------------- search flow
\* sendSearchResultsPage: nothing is stored when the page is empty.
sendSearchResultsPage(cur, state, page, u, t) ==
  IF page * PageSize >= state.searchResults
  THEN [conv |-> cur, msgs |-> <<Msg(u, "no_more_results", UndefI)>>]
  ELSE [conv |-> setConversationState(cur, [state EXCEPT !.searchPage = page], u, t),
        msgs |-> <<Msg(u, "search_results", UndefI)>>]

\* respondWithProjectDetails
respondWithProjectDetails(cur, state, u, t) ==
  [conv |-> setConversationState(cur, [state EXCEPT !.lastProjectAt = t], u, t),
   msgs |-> <<Msg(u, "project_details", UndefI)>>]

\* handleSearchFlow: whether it consumed the text, the stored item after it,
\* and what it sent.  n is what searchProjects finds for the query.
handleSearchFlow(cur, text, n, u, t) ==
  LET state == cur
      page == IF Defined(state.searchPage) THEN state.searchPage ELSE 0
  IN IF /\ isProjectEndDateQuestion(text)
        /\ Defined(state.lastProjectAt)
        /\ 2 * (t - state.lastProjectAt) <= 1
     THEN [handled |-> TRUE, conv |-> cur, msgs |-> <<Msg(u, "end_date", UndefI)>>]
     ELSE IF Defined(state.searchResults) /\ isNextPageCommand(text)
     THEN [handled |-> TRUE] @@ sendSearchResultsPage(cur, state, page + 1, u, t)
     ELSE IF Defined(state.searchResults) /\ parseSelectionNumber(text) # NullI
     THEN IF page * PageSize + (parseSelectionNumber(text) - 1) < state.searchResults
          THEN [handled |-> TRUE] @@ respondWithProjectDetails(cur, state, u, t)
          ELSE [handled |-> TRUE, conv |-> cur,
                msgs |-> <<Msg(u, "invalid_selection", UndefI)>>]
     ELSE IF extractSearchQuery(text) = "null"
     THEN [handled |-> FALSE, conv |-> cur, msgs |-> <<>>]
     ELSE IF n = 0
     THEN [handled |-> TRUE, conv |-> cur, msgs |-> <<Msg(u, "no_results", UndefI)>>]
     ELSE LET found == [state EXCEPT !.searchResults = n, !.searchPage = 0]
              stored == setConversationState(cur, found, u, t)
          IN [handled |-> TRUE] @@ sendSearchResultsPage(stored, found, 0, u, t)

\* A closing branch that advances the queue without sending the next request.
CloseCycleSilent(cur, table, text, u, t) ==
  LET state == cur
      item == UpdateItem(state.currentProjectGid, t, u, state.status,
                         state.hasBlockers, text)
      written == saveUpdate(table, item)
      adv == AdvanceOrClear(cur, state, u, t)
  IN [conv |-> adv.conv,
      updates |-> written,
      msgs |-> <<Msg(u, "update_registered", state.currentProjectGid)>>]

\* --------------------------------------------------- closing a cycle
\* The awaiting_advances branch of handleAdvancesText: save the update,
\* evaluate the risk on what getLastUpdates returns, alert, thank, advance.
CloseCycle(cur, table, text, u, t) ==
  LET state == cur
      item == UpdateItem(state.currentProjectGid, t, u, state.status,
                         state.hasBlockers, text)
      written == saveUpdate(table, item)
      previousUpdates == getLastUpdates(written, state.currentProjectGid, 2)
      riskAnalysis == shouldAlert([status |-> state.status,
                                   hasBlockers |-> state.hasBlockers],
                                  previousUpdates)
      adv == AdvanceOrClear(cur, state, u, t)
  IN [conv |-> adv.conv,
      updates |-> written,
      msgs |-> (IF riskAnalysis.shouldAlert
                THEN <<Msg(PmoChannel, "alert", state.currentProjectGid)>>
                ELSE <<>>)
               \o <<Msg(u, "update_registered", state.currentProjectGid)>>
               \o adv.msgs]

\* -------------------------------------------------------- free-text handler
\* handleWithAgent: the agent's answer is a message; nothing is stored.
handleWithAgent(u) == <<Msg(u, "agent_reply", UndefI)>>

\* A handler that takes the text as the narrative before it looks for a
\* search or a business id.
handleAdvancesTextNarrativeFirst(user, cur, table, text, n, u, t) ==
  LET same == [user |-> user, conv |-> cur, updates |-> table, saved |-> 0]
      search == handleSearchFlow(cur, text, n, u, t)
  IN IF text = "ayuda"
     THEN same @@ [msgs |-> <<Msg(u, "help", UndefI)>>]
     ELSE IF text = "reset"
     THEN [same EXCEPT !.user = NoUser] @@ [msgs |-> <<Msg(u, "profile_reset", UndefI)>>]
     ELSE IF text = "mis proyectos"
     THEN same @@ [msgs |-> <<Msg(u, "my_projects", UndefI)>>]
     ELSE IF isInUpdateFlow(cur) /\ isSnoozeCommand(text)
     THEN [same EXCEPT !.conv =
             setConversationState(cur, [cur EXCEPT !.snoozeUntil = t + SnoozeDuration], u, t)]
          @@ [msgs |-> <<Msg(u, "snooze_ack", UndefI)>>]
     ELSE IF cur.exists /\ cur.step = "awaiting_advances"
     THEN LET c == CloseCycle(cur, table, text, u, t)
          IN [user |-> user, conv |-> c.conv, updates |-> c.updates, saved |-> 1,
              msgs |-> c.msgs]
     ELSE IF search.handled
     THEN [same EXCEPT !.conv = search.conv] @@ [msgs |-> search.msgs]
     ELSE IF PmoIdMatch(text)
     THEN same @@ [msgs |-> <<Msg(u, "pmo_searching", UndefI), Msg(u, "pmo_result", UndefI)>>]
     ELSE same @@ [msgs |-> handleWithAgent(u)]

\* handleAdvancesText for an onboarded user: the user item, the conversation
\* item and the updates table after the call, and what it sent.
handleAdvancesText(user, cur, table, text, n, u, t) ==
  LET same == [user |-> user, conv |-> cur, updates |-> table, saved |-> 0]
      search == handleSearchFlow(cur, text, n, u, t)
  IN IF text = "ayuda"
     THEN same @@ [msgs |-> <<Msg(u, "help", UndefI)>>]
     ELSE IF text = "reset"
     THEN [same EXCEPT !.user = NoUser] @@ [msgs |-> <<Msg(u, "profile_reset", UndefI)>>]
     ELSE IF text = "mis proyectos"
     THEN same @@ [msgs |-> <<Msg(u, "my_projects", UndefI)>>]
     ELSE IF isInUpdateFlow(cur) /\ isSnoozeCommand(text)
     THEN [same EXCEPT !.conv =
             setConversationState(cur, [cur EXCEPT !.snoozeUntil = t + SnoozeDuration], u, t)]
          @@ [msgs |-> <<Msg(u, "snooze_ack", UndefI)>>]
     ELSE IF search.handled
     THEN [same EXCEPT !.conv = search.conv] @@ [msgs |-> search.msgs]
     ELSE IF PmoIdMatch(text)
     THEN same @@ [msgs |-> <<Msg(u, "pmo_searching", UndefI), Msg(u, "pmo_result", UndefI)>>]
     ELSE IF cur.exists /\ cur.step = "awaiting_advances"
     THEN LET c == CloseCycle(cur, table, text, u, t)
          IN [user |-> user, conv |-> c.conv, updates |-> c.updates, saved |-> 1,
              msgs |-> c.msgs]
     ELSE same @@ [msgs |-> handleWithAgent(u)]

\* An onboarding that marks the user onboarded on the first message.
handleOnboardingEager(existingUser, text, u) ==
  IF ~existingUser.exists
  THEN [user |-> saveUser([NewUser EXCEPT !.onboarded = "true"]),
        msgs |-> <<Msg(u, "onboarding_name", UndefI)>>]
  ELSE IF existingUser.asanaName = "undefined"
  THEN IF TrimLength(text) >= 2
       THEN [user |-> updateUser(existingUser,
                        [UserChanges EXCEPT !.asanaName = AsanaNameOf(text)]),
             msgs |-> <<Msg(u, "onboarding_timezone", UndefI)>>]
       ELSE [user |-> existingUser, msgs |-> <<Msg(u, "name_too_short", UndefI)>>]
  ELSE IF existingUser.timezone \in {"undefined", "null"}
  THEN [user |-> existingUser, msgs |-> <<Msg(u, "onboarding_timezone", UndefI)>>]
  ELSE [user |-> existingUser, msgs |-> <<>>]

\* An onboarding that stores whatever name it is given.
handleOnboardingAnyName(existingUser, text, u) ==
  IF ~existingUser.exists
  THEN [user |-> saveUser([NewUser EXCEPT !.onboarded = "false"]),
        msgs |-> <<Msg(u, "onboarding_name", UndefI)>>]
  ELSE IF existingUser.asanaName = "undefined"
  THEN [user |-> updateUser(existingUser,
                   [UserChanges EXCEPT !.asanaName = AsanaNameOf(text)]),
        msgs |-> <<Msg(u, "onboarding_timezone", UndefI)>>]
  ELSE IF existingUser.timezone \in {"undefined", "null"}
  THEN [user |-> existingUser, msgs |-> <<Msg(u, "onboarding_timezone", UndefI)>>]
  ELSE [user |-> existingUser, msgs |-> <<>>]

\* handleOnboarding: the user item after the call and what it sent.
handleOnboarding(existingUser, text, u) ==
  IF ~existingUser.exists
  THEN [user |-> saveUser([NewUser EXCEPT !.onboarded = "false"]),
        msgs |-> <<Msg(u, "onboarding_name", UndefI)>>]
  ELSE IF existingUser.asanaName = "undefined"
  THEN IF TrimLength(text) >= 2
       THEN [user |-> updateUser(existingUser,
                        [UserChanges EXCEPT !.asanaName = AsanaNameOf(text)]),
             msgs |-> <<Msg(u, "onboarding_timezone", UndefI)>>]
       ELSE [user |-> existingUser, msgs |-> <<Msg(u, "name_too_short", UndefI)>>]
  ELSE IF existingUser.timezone \in {"undefined", "null"}
  THEN [user |-> existingUser, msgs |-> <<Msg(u, "onboarding_timezone", UndefI)>>]
  ELSE [user |-> existingUser, msgs |-> <<>>]

\* ------------------------------------------------------- scheduled outreach
Infinity == 1000000
\* An ordinal that puts the projects without a PMO id first.
parsePmoIdNumberFirst(pmoId) == IF pmoId = NullI THEN 0 ELSE pmoId
parsePmoIdNumber(pmoId) == IF pmoId = NullI THEN Infinity ELSE pmoId

isAppropriateTime(hour) == hour >= 8 /\ hour <= 10

ToLowerCase(status) == IF status \in {"Completed", "COMPLETED"} THEN "completed" ELSE status

\* Array.prototype.sort with (a, b) => aNum - bNum: a stable sort by the number.
RECURSIVE InsertByPmoId(_, _)
InsertByPmoId(sorted, p) ==
  IF sorted = <<>> THEN <<p>>
  ELSE IF parsePmoIdNumber(sorted[Len(sorted)].pmoId) <= parsePmoIdNumber(p.pmoId)
  THEN Append(sorted, p)
  ELSE Append(InsertByPmoId(SubSeq(sorted, 1, Len(sorted) - 1), p), sorted[Len(sorted)])

RECURSIVE SortByPmoId(_)
SortByPmoId(projects) ==
  IF projects = <<>> THEN <<>>
  ELSE InsertByPmoId(SortByPmoId(SubSeq(projects, 1, Len(projects) - 1)),
                     projects[Len(projects)])

\* The pending queue the outreach builds for a user.
PendingQueue(asanaName, table, t) ==
  LET keep(project) == /\ ToLowerCase(project.status) # "completed"
                       /\ project.gid \notin getProjectsUpdatedToday(table, t)
  IN SortByPmoId(SelectSeq(getProjectsByResponsableName(asanaName), keep))

\* An outreach body that does not look for a flow in progress.
OutreachUserOverwriting(user, cur, table, hour, u, t) ==
  LET filtered == PendingQueue(user.asanaName, table, t)
      skip == [conv |-> cur, msgs |-> <<>>]
  IN IF ~isAppropriateTime(hour) THEN skip
     ELSE IF user.asanaName = "undefined" THEN skip
     ELSE IF Len(filtered) = 0 THEN skip
     ELSE [conv |-> setConversationState(cur,
                      [NoState EXCEPT
                         !.step = "awaiting_status",
                         !.pendingProjects =
                            [i \in 1..Len(filtered) |->
                               [gid |-> filtered[i].gid, name |-> filtered[i].name,
                                pmoId |-> OrNull(filtered[i].pmoId),
                                status |-> filtered[i].status]],
                         !.currentIndex = 0,
                         !.currentProjectGid = filtered[1].gid,
                         !.currentProjectName = filtered[1].name,
                         !.currentProjectPmoId = OrNull(filtered[1].pmoId),
                         !.lastPromptAt = t],
                      u, t),
           msgs |-> <<Msg(u, "update_request", filtered[1].gid)>>]

\* The body of the outreach loop for one onboarded user.
OutreachUser(user, cur, table, hour, u, t) ==
  LET filtered == PendingQueue(user.asanaName, table, t)
      skip == [conv |-> cur, msgs |-> <<>>]
  IN IF ~isAppropriateTime(hour) THEN skip
     ELSE IF user.asanaName = "undefined" THEN skip
     ELSE IF isInUpdateFlow(cur) THEN skip
     ELSE IF Len(filtered) = 0 THEN skip
     ELSE [conv |-> setConversationState(cur,
                      [NoState EXCEPT
                         !.step = "awaiting_status",
                         !.pendingProjects =
                            [i \in 1..Len(filtered) |->
                               [gid |-> filtered[i].gid, name |-> filtered[i].name,
                                pmoId |-> OrNull(filtered[i].pmoId),
                                status |-> filtered[i].status]],
                         !.currentIndex = 0,
                         !.currentProjectGid = filtered[1].gid,
                         !.currentProjectName = filtered[1].name,
                         !.currentProjectPmoId = OrNull(filtered[1].pmoId),
                         !.lastPromptAt = t],
                      u, t),
           msgs |-> <<Msg(u, "update_request", filtered[1].gid)>>]

\* ------------------------------------------------------------ button clicks
\* handleBlockActions, status branch: the object handed to
\* setConversationState after the click on status_{projectGid}_{value}, given
\* the state the handler read.
statusFields(currentState, projectGid, value, t) ==
  LET pending == currentState.pendingProjects
      hits == {i \in 1..Len(pending) : pending[i].gid = projectGid}
      match == pending[CHOOSE i \in hits : \A j \in hits : i <= j]
      projectName == IF hits # {} THEN match.name
                     ELSE IF Defined(currentState.currentProjectName)
                          THEN currentState.currentProjectName ELSE NullI
      statePmoId == IF Defined(currentState.currentProjectPmoId)
                    THEN currentState.currentProjectPmoId ELSE NullI
      projectPmoId == IF hits # {} /\ Defined(match.pmoId) THEN match.pmoId
                      ELSE statePmoId
  IN [NoState EXCEPT
        !.step = "awaiting_blockers",
        !.currentProjectGid = projectGid,
        !.currentProjectName = projectName,
        !.currentProjectPmoId = projectPmoId,
        !.status = value,
        !.lastPromptAt = t]

\* handleBlockActions, status branch: the stored item after the click, when
\* nothing else writes between the handler's read and the put.
StatusClickState(cur, projectGid, value, u, t) ==
  setConversationState(cur, statusFields(cur, projectGid, value, t), u, t)

\* A blockers branch that stores the answer without leaving the step.
BlockersClickStateStuck(cur, value, u, t) ==
  LET state == cur
      hasBlockers == IF value = "yes" THEN "true" ELSE "false"
  IN setConversationState(cur,
       [state EXCEPT
          !.hasBlockers = hasBlockers,
          !.lastPromptAt = t],
       u, t)

\* handleBlockActions, blockers branch: the object handed to
\* setConversationState after the click on blockers_{projectGid}_{yes|no}: the
\* state the handler read, spread under the answer.  The project identifier
\* of the button is not read.
blockersFields(state, value, t) ==
  LET hasBlockers == IF value = "yes" THEN "true" ELSE "false"
  IN [state EXCEPT
        !.step = "awaiting_advances",
        !.hasBlockers = hasBlockers,
        !.lastPromptAt = t]

\* handleBlockActions, blockers branch: the stored item after the click, when
\* nothing else writes between the handler's read and the put.
BlockersClickState(cur, value, u, t) ==
  setConversationState(cur, blockersFields(cur, value, t), u, t)

\* ----------------------------------------------------------- reminder sweep
\* getActiveConversationStates: the stored items that are in the update flow.
getActiveConversationStates(table) ==
  {u \in AllUsers : isInUpdateFlow(table[u])}

ReminderFor(state, u) ==
  IF state.step = "awaiting_status"
  THEN <<Msg(u, "update_request", state.currentProjectGid)>>
  ELSE IF state.step = "awaiting_blockers"
  THEN <<Msg(u, "reminder_blockers", state.currentProjectGid)>>
  ELSE IF state.step = "awaiting_advances"
  THEN <<Msg(u, "reminder_advances", state.currentProjectGid)>>
  ELSE <<>>

\* A sweep body that does not honour a snooze.
SweepStateNoSnooze(cur, table, u, t) ==
  LET state == cur
      skip == [conv |-> cur, msgs |-> <<>>]
      lastUpdates == getLastUpdates(table, state.currentProjectGid, 1)
  IN IF state.slackUserId = "undefined" \/ ~Defined(state.currentProjectGid) THEN skip
     ELSE IF ~Defined(state.lastPromptAt) THEN skip
     ELSE IF t - state.lastPromptAt < ReminderThreshold THEN skip
     ELSE IF Len(lastUpdates) > 0 /\ lastUpdates[1].sk > state.lastPromptAt
     THEN LET adv == AdvanceOrClear(cur, state, u, t)
          IN [conv |-> adv.conv, msgs |-> adv.msgs]
     ELSE [conv |-> setConversationState(cur, [state EXCEPT !.lastPromptAt = t], u, t),
           msgs |-> ReminderFor(state, u)]

\* A sweep body that does not look for a newer update.
SweepStateNoLookup(cur, table, u, t) ==
  LET state == cur
      skip == [conv |-> cur, msgs |-> <<>>]
  IN IF state.slackUserId = "undefined" \/ ~Defined(state.currentProjectGid) THEN skip
     ELSE IF Defined(state.snoozeUntil) /\ state.snoozeUntil > t THEN skip
     ELSE IF ~Defined(state.lastPromptAt) THEN skip
     ELSE IF t - state.lastPromptAt < ReminderThreshold THEN skip
     ELSE [conv |-> setConversationState(cur, [state EXCEPT !.lastPromptAt = t], u, t),
           msgs |-> ReminderFor(state, u)]

\* A sweep body that reminds without refreshing lastPromptAt.
SweepStateNoStamp(cur, table, u, t) ==
  LET state == cur
      skip == [conv |-> cur, msgs |-> <<>>]
      lastUpdates == getLastUpdates(table, state.currentProjectGid, 1)
  IN IF state.slackUserId = "undefined" \/ ~Defined(state.currentProjectGid) THEN skip
     ELSE IF Defined(state.snoozeUntil) /\ state.snoozeUntil > t THEN skip
     ELSE IF ~Defined(state.lastPromptAt) THEN skip
     ELSE IF t - state.lastPromptAt < ReminderThreshold THEN skip
     ELSE IF Len(lastUpdates) > 0 /\ lastUpdates[1].sk > state.lastPromptAt
     THEN LET adv == AdvanceOrClear(cur, state, u, t)
          IN [conv |-> adv.conv, msgs |-> adv.msgs]
     ELSE [conv |-> cur, msgs |-> ReminderFor(state, u)]

\* The body of the sweep loop for one active state.
sweepLoopBody(state, cur, table, u, t) ==
  LET skip == [conv |-> cur, msgs |-> <<>>]
      lastUpdates == getLastUpdates(table, state.currentProjectGid, 1)
  IN IF state.slackUserId = "undefined" \/ ~Defined(state.currentProjectGid) THEN skip
     ELSE IF Defined(state.snoozeUntil) /\ state.snoozeUntil > t THEN skip
     ELSE IF ~Defined(state.lastPromptAt) THEN skip
     ELSE IF t - state.lastPromptAt < ReminderThreshold THEN skip
     ELSE IF Len(lastUpdates) > 0 /\ lastUpdates[1].sk > state.lastPromptAt
     THEN LET adv == reminderAdvanceOrClear(cur, state, u, t)
          IN [conv |-> adv.conv, msgs |-> adv.msgs]
     ELSE [conv |-> setConversationState(cur, [state EXCEPT !.lastPromptAt = t], u, t),
           msgs |-> ReminderFor(state, u)]

\* The loop body when nothing is written between the scan and the put.
SweepState(cur, table, u, t) == sweepLoopBody(cur, cur, table, u, t)

\* ------------------------------------------------------------------ actions
UserOrder == <<"U1", "U2">>

RECURSIVE Flatten(_, _)
Flatten(byUser, i) ==
  IF i > Len(UserOrder) THEN <<>>
  ELSE byUser[UserOrder[i]] \o Flatten(byUser, i + 1)

\* What an invocation sends, and the buttons it hands to the users.
Delivered(msgs) ==
  /\ sent' = msgs
  /\ prompted' =
       [u \in AllUsers |->
          prompted[u] \cup
            {msgs[i].gid : i \in {j \in 1..Len(msgs) :
                msgs[j].to = u /\ msgs[j].kind = "update_request"}}]
  /\ tzPrompted' =
       [u \in AllUsers |->
          tzPrompted[u] \/ \E i \in 1..Len(msgs) :
             msgs[i].to = u /\ msgs[i].kind = "onboarding_timezone"]

NoRisk == [currentUpdate |-> [status |-> "null", hasBlockers |-> "null"],
           previousUpdates |-> <<>>, result |-> "none"]

Onboarded ==
  [exists |-> TRUE, asanaName |-> "N", timezone |-> "America/Santiago",
   onboarded |-> "true", asanaEmail |-> "null"]

\* The tables before the first interaction.
Init ==
  /\ now = 0
  /\ users = [u \in AllUsers |-> NoUser]
  /\ conv = [u \in AllUsers |-> NoState]
  /\ updates = {}
  /\ saves = 0
  /\ closedAt = [u \in AllUsers |-> UndefI]
  /\ pulsed = FALSE
  /\ risk = NoRisk
  /\ cache = FullCache
  /\ summary = NoSummary
  /\ reported = <<>>
  /\ returned = UndefI
  /\ inflight = <<>>
  /\ call = <<>>
  /\ cycle = <<>>
  /\ batch = <<>>
  /\ prompted = [u \in AllUsers |-> {}]
  /\ tzPrompted = [u \in AllUsers |-> FALSE]
  /\ sent = <<>>
  /\ population = {"U1"}
  /\ texts = {"all good", "reset"}
  /\ choices = {"on_track"}

\* One onboarded user with no conversation item, who writes plain text.
FlowInit ==
  /\ now = 0
  /\ users = [u \in AllUsers |-> IF u = "U1" THEN Onboarded ELSE NoUser]
  /\ conv = [u \in AllUsers |-> NoState]
  /\ updates = {}
  /\ saves = 0
  /\ closedAt = [u \in AllUsers |-> UndefI]
  /\ pulsed = FALSE
  /\ risk = NoRisk
  /\ cache = FullCache
  /\ summary = NoSummary
  /\ reported = <<>>
  /\ returned = UndefI
  /\ inflight = <<>>
  /\ call = <<>>
  /\ cycle = <<>>
  /\ batch = <<>>
  /\ prompted = [u \in AllUsers |-> {}]
  /\ tzPrompted = [u \in AllUsers |-> u = "U1"]
  /\ sent = <<>>
  /\ population = {"U1"}
  /\ texts = {"all good"}
  /\ choices = {"on_track", "at_risk"}

Tick ==
  /\ now < MaxTime
  /\ now' = now + 1
  /\ sent' = <<>>
  /\ UNCHANGED <<users, conv, updates, saves, closedAt, pulsed, prompted, tzPrompted, population, texts, choices, risk, cache, summary, reported, returned, inflight, call, cycle, batch>>

\* handleEventCallback: a direct message of user u.  A user's interactions are
\* serialized and a cycle takes three of them, so the clock (which stamps the
\* update's sort key) has moved on since the same user last closed a cycle.
Message(u, text, n) ==
  /\ u \in population /\ text \in texts
  /\ n = 0 \/ extractSearchQuery(text) # "null"
  /\ IF ~users[u].exists \/ users[u].onboarded # "true"
     THEN LET r == handleOnboarding(users[u], text, u)
          IN /\ users' = [users EXCEPT ![u] = r.user]
             /\ Delivered(r.msgs)
             /\ UNCHANGED <<conv, updates, saves, closedAt>>
     ELSE LET r == handleAdvancesText(users[u], conv[u], updates, text, n, u, now)
          IN /\ r.saved = 1 => closedAt[u] < now
             /\ closedAt' = IF r.saved = 1 THEN [closedAt EXCEPT ![u] = now] ELSE closedAt
             /\ users' = [users EXCEPT ![u] = r.user]
             /\ conv' = [conv EXCEPT ![u] = r.conv]
             /\ updates' = r.updates
             /\ saves' = saves + r.saved
             /\ Delivered(r.msgs)
  /\ returned' = 200
  /\ UNCHANGED <<now, pulsed, population, texts, choices, risk, cache, summary, reported, inflight, call, cycle, batch>>

\* handleBlockActions: a click on a status button of an update request
\* the user holds (of this cycle or of an earlier one).
StatusClick(u, projectGid, value) ==
  /\ u \in population /\ projectGid \in prompted[u] /\ value \in choices
  /\ conv' = [conv EXCEPT ![u] = StatusClickState(conv[u], projectGid, value, u, now)]
  /\ Delivered(<<>>)
  /\ returned' = 200
  /\ UNCHANGED <<now, users, updates, saves, closedAt, pulsed, population, texts, choices, risk, cache, summary, reported, inflight, call, cycle, batch>>

\* handleBlockActions: a click on a blockers button of an update
\* request the user holds.
BlockersClick(u, projectGid, value) ==
  /\ u \in population /\ projectGid \in prompted[u]
  /\ conv' = [conv EXCEPT ![u] = BlockersClickState(conv[u], value, u, now)]
  /\ Delivered(<<Msg(u, "advances_prompt", UndefI)>>)
  /\ returned' = 200
  /\ UNCHANGED <<now, users, updates, saves, closedAt, pulsed, population, texts, choices, risk, cache, summary, reported, inflight, call, cycle, batch>>

\* handleBlockActions: a click on a time-zone button of a prompt the user holds.
TimezoneClick(u, value) ==
  /\ u \in population /\ tzPrompted[u]
  /\ users' = [users EXCEPT ![u] =
       updateUser(users[u], [UserChanges EXCEPT !.timezone = value, !.onboarded = "true"])]
  /\ Delivered(<<Msg(u, "onboarding_complete", UndefI)>>)
  /\ returned' = 200
  /\ UNCHANGED <<now, conv, updates, saves, closedAt, pulsed, population, texts, choices, risk, cache, summary, reported, inflight, call, cycle, batch>>

\* The scheduled-pulse handler, at local hour `hour` of the users.  The
\* scheduler fires it once a day, and the clock stays within one day.
Outreach(hour) ==
  LET onboarded(u) == users[u].exists /\ users[u].onboarded = "true"
      r == [u \in AllUsers |->
              IF onboarded(u)
              THEN OutreachUser(users[u], conv[u], updates, hour, u, now)
              ELSE [conv |-> conv[u], msgs |-> <<>>]]
  IN /\ ~pulsed
     /\ pulsed' = TRUE
     /\ conv' = [u \in AllUsers |-> r[u].conv]
     /\ Delivered(Flatten([u \in AllUsers |-> r[u].msgs], 1))
     /\ returned' = 200
     /\ UNCHANGED <<now, users, updates, saves, closedAt, population, texts, choices, risk, cache, summary, reported, inflight, call, cycle, batch>>

\* The reminder handler.
Sweep ==
  LET active == getActiveConversationStates(conv)
      r == [u \in AllUsers |->
              IF u \in active
              THEN SweepState(conv[u], updates, u, now)
              ELSE [conv |-> conv[u], msgs |-> <<>>]]
  IN /\ conv' = [u \in AllUsers |-> r[u].conv]
     /\ Delivered(Flatten([u \in AllUsers |-> r[u].msgs], 1))
     /\ returned' = 200
     /\ UNCHANGED <<now, users, updates, saves, closedAt, pulsed, population, texts, choices, risk, cache, summary, reported, inflight, call, cycle, batch>>

\* The position of a user in the order the sweep walks the states in.
Position(u) == CHOOSE i \in 1..Len(UserOrder) : UserOrder[i] = u

\* The reminder handler when the first store call made for the state of
\* `failed` raises: the loop has no try/catch, so the error leaves the handler.
SweepFailing(failed) ==
  LET active == getActiveConversationStates(conv)
      done == {u \in active : Position(u) < Position(failed)}
      r == [u \in AllUsers |->
              IF u \in done
              THEN SweepState(conv[u], updates, u, now)
              ELSE [conv |-> conv[u], msgs |-> <<>>]]
  IN /\ failed \in active
     /\ conv' = [u \in AllUsers |-> r[u].conv]
     /\ Delivered(Flatten([u \in AllUsers |-> r[u].msgs], 1))
     /\ returned' = Thrown
     /\ UNCHANGED <<now, users, updates, saves, closedAt, pulsed, population, texts, choices, risk, cache, summary, reported, inflight, call, cycle, batch>>

\* The store deletes a conversation item whose TTL has passed.
Expire(u) ==
  /\ conv[u].exists /\ conv[u].expiresAt <= now
  /\ conv' = [conv EXCEPT ![u] = NoState]
  /\ sent' = <<>>
  /\ UNCHANGED <<now, users, updates, saves, closedAt, pulsed, prompted, tzPrompted, population, texts, choices, risk, cache, summary, reported, returned, inflight, call, cycle, batch>>

Timezones == {"America/Santiago"}
LocalHours == {7, 9}

Next ==
  \/ Tick
  \/ \E u \in AllUsers, text \in AllTexts, n \in ResultCounts : Message(u, text, n)
  \/ \E u \in AllUsers, g \in Gids, v \in Statuses : StatusClick(u, g, v)
  \/ \E u \in AllUsers, g \in Gids, v \in BlockerValues : BlockersClick(u, g, v)
  \/ \E u \in AllUsers, tz \in Timezones : TimezoneClick(u, tz)
  \/ \E hour \in LocalHours : Outreach(hour)
  \/ Sweep
  \/ \E u \in AllUsers : Expire(u)

Spec == Init /\ [][Next]_vars

\* The update flow of onboarded users: no onboarding step is taken.
FlowNext ==
  \/ Tick
  \/ \E u \in AllUsers, text \in AllTexts, n \in ResultCounts : Message(u, text, n)
  \/ \E u \in AllUsers, g \in Gids, v \in Statuses : StatusClick(u, g, v)
  \/ \E u \in AllUsers, g \in Gids, v \in BlockerValues : BlockersClick(u, g, v)
  \/ \E hour \in LocalHours : Outreach(hour)
  \/ Sweep
  \/ \E u \in AllUsers : Expire(u)

FlowSpec == FlowInit /\ [][FlowNext]_vars

\* Two onboarded users registered under the same responsable name.
PairInit ==
  /\ now = 0
  /\ users = [u \in AllUsers |-> Onboarded]
  /\ conv = [u \in AllUsers |-> NoState]
  /\ updates = {}
  /\ saves = 0
  /\ closedAt = [u \in AllUsers |-> UndefI]
  /\ pulsed = FALSE
  /\ risk = NoRisk
  /\ cache = FullCache
  /\ summary = NoSummary
  /\ reported = <<>>
  /\ returned = UndefI
  /\ inflight = <<>>
  /\ call = <<>>
  /\ cycle = <<>>
  /\ batch = <<>>
  /\ prompted = [u \in AllUsers |-> {}]
  /\ tzPrompted = [u \in AllUsers |-> TRUE]
  /\ sent = <<>>
  /\ population = AllUsers
  /\ texts = {"all good"}
  /\ choices = {"on_track"}

\* Both users answer only the request in front of them.
PairNext ==
  \/ Tick
  \/ \E u \in AllUsers, text \in AllTexts : Message(u, text, 0)
  \/ \E u \in AllUsers, v \in Statuses :
       isInUpdateFlow(conv[u]) /\ StatusClick(u, conv[u].currentProjectGid, v)
  \/ \E u \in AllUsers, v \in BlockerValues :
       isInUpdateFlow(conv[u]) /\ BlockersClick(u, conv[u].currentProjectGid, v)
  \/ \E hour \in LocalHours : Outreach(hour)

PairSpec == PairInit /\ [][PairNext]_vars

\* Two onboarded users who share their projects: U1 leaves the requests
\* unanswered, U2 answers the request in front of them or puts it off; the
\* reminder sweep runs over both.
ReminderInit ==
  /\ now = 0
  /\ users = [u \in AllUsers |-> Onboarded]
  /\ conv = [u \in AllUsers |-> NoState]
  /\ updates = {}
  /\ saves = 0
  /\ closedAt = [u \in AllUsers |-> UndefI]
  /\ pulsed = FALSE
  /\ risk = NoRisk
  /\ cache \in {FullCache, SoloCache}
  /\ summary = NoSummary
  /\ reported = <<>>
  /\ returned = UndefI
  /\ inflight = <<>>
  /\ call = <<>>
  /\ cycle = <<>>
  /\ batch = <<>>
  /\ prompted = [u \in AllUsers |-> {}]
  /\ tzPrompted = [u \in AllUsers |-> TRUE]
  /\ sent = <<>>
  /\ population = {"U2"}
  /\ texts = {"all good", "mas tarde"}
  /\ choices = {"on_track"}

ReminderNext ==
  \/ Tick
  \/ \E u \in AllUsers, text \in AllTexts : Message(u, text, 0)
  \/ \E u \in AllUsers, v \in Statuses :
       isInUpdateFlow(conv[u]) /\ StatusClick(u, conv[u].currentProjectGid, v)
  \/ \E u \in AllUsers, v \in BlockerValues :
       isInUpdateFlow(conv[u]) /\ BlockersClick(u, conv[u].currentProjectGid, v)
  \/ \E hour \in LocalHours : Outreach(hour)
  \/ Sweep
  \/ \E failed \in AllUsers : SweepFailing(failed)

ReminderSpec == ReminderInit /\ [][ReminderNext]_vars

\* ------------------------------------------------- the side-channel commands
\* One onboarded user who writes the commands, searches and answers.
CommandInit ==
  /\ now = 0
  /\ users = [u \in AllUsers |-> IF u = "U1" THEN Onboarded ELSE NoUser]
  /\ conv = [u \in AllUsers |-> NoState]
  /\ updates = {}
  /\ saves = 0
  /\ closedAt = [u \in AllUsers |-> UndefI]
  /\ pulsed = FALSE
  /\ risk = NoRisk
  /\ cache = FullCache
  /\ summary = NoSummary
  /\ reported = <<>>
  /\ returned = UndefI
  /\ inflight = <<>>
  /\ call = <<>>
  /\ cycle = <<>>
  /\ batch = <<>>
  /\ prompted = [u \in AllUsers |-> {}]
  /\ tzPrompted = [u \in AllUsers |-> u = "U1"]
  /\ sent = <<>>
  /\ population = {"U1"}
  /\ texts = {"ayuda", "mis proyectos", "PMO-911", "proyecto acme", "reset", "all good"}
  /\ choices = {"on_track"}

CommandSpec == CommandInit /\ [][Next]_vars

\* ------------------------------------------- texts while awaiting advances
\* An onboarded user who may write any of the texts at any step of a flow.
NarrativeInit ==
  /\ now = 0
  /\ users = [u \in AllUsers |-> IF u = "U1" THEN Onboarded ELSE NoUser]
  /\ conv = [u \in AllUsers |-> NoState]
  /\ updates = {}
  /\ saves = 0
  /\ closedAt = [u \in AllUsers |-> UndefI]
  /\ pulsed = FALSE
  /\ risk = NoRisk
  /\ cache = FullCache
  /\ summary = NoSummary
  /\ reported = <<>>
  /\ returned = UndefI
  /\ inflight = <<>>
  /\ call = <<>>
  /\ cycle = <<>>
  /\ batch = <<>>
  /\ prompted = [u \in AllUsers |-> {}]
  /\ tzPrompted = [u \in AllUsers |-> u = "U1"]
  /\ sent = <<>>
  /\ population = {"U1"}
  /\ texts = {"ayuda", "reset", "mis proyectos", "mas tarde", "proyecto acme",
             "PMO-911", "all good"}
  /\ choices = {"on_track"}

\* The pulse, the clicks on the active project and the messages.
NarrativeNext ==
  \/ \E u \in AllUsers, text \in AllTexts, n \in ResultCounts : Message(u, text, n)
  \/ \E u \in AllUsers, v \in Statuses :
       isInUpdateFlow(conv[u]) /\ StatusClick(u, conv[u].currentProjectGid, v)
  \/ \E u \in AllUsers, v \in BlockerValues :
       isInUpdateFlow(conv[u]) /\ BlockersClick(u, conv[u].currentProjectGid, v)
  \/ \E hour \in LocalHours : Outreach(hour)

NarrativeSpec == NarrativeInit /\ [][NarrativeNext]_vars

\* ------------------------------------------------------- the outreach alone
Yesterday == 0 - HoursPerDay

\* What the cache may hold of a project, and the updates the table may hold
\* of it when the pulse runs.
CachedProjects ==
  [exists : {TRUE}, name : {UndefI}, responsable : {"N"},
   status : {"On Track"}, pmoId : {NullI, 10, 20}]
  \cup [exists : {TRUE}, name : {UndefI}, responsable : {"N", "other"},
        status : {"On Track", "COMPLETED"}, pmoId : {10}]
EarlierUpdates == {{}, {0}, {Yesterday}}

\* Two onboarded users, each the owner of some of the cached projects: U1 holds
\* no item, U2 holds the cleared item of yesterday's cycle.
QueueInit ==
  /\ now = 0
  /\ users = [u \in AllUsers |->
                IF u = "U1" THEN Onboarded ELSE [Onboarded EXCEPT !.asanaName = "other"]]
  /\ \E c \in [Gids -> CachedProjects] :
       cache = [g \in Gids |-> [c[g] EXCEPT !.name = Name(g)]]
  /\ summary = NoSummary
  /\ reported = <<>>
  /\ returned = UndefI
  /\ inflight = <<>>
  /\ call = <<>>
  /\ cycle = <<>>
  /\ batch = <<>>
  /\ \E when \in [Gids -> EarlierUpdates] :
       updates = {UpdateItem(p[1], p[2], "U2", "on_track", "false", "all good") :
                    p \in {q \in Gids \X {0, Yesterday} : q[2] \in when[q[1]]}}
  /\ conv = [u \in AllUsers |->
               IF u = "U1" THEN NoState ELSE clearConversationState(Yesterday)]
  /\ saves = 0
  /\ closedAt = [u \in AllUsers |-> UndefI]
  /\ pulsed = FALSE
  /\ risk = NoRisk
  /\ prompted = [u \in AllUsers |-> {}]
  /\ tzPrompted = [u \in AllUsers |-> TRUE]
  /\ sent = <<>>
  /\ population = {}
  /\ texts = {}
  /\ choices = {}

\* The schedule fires the pulse again on the next day.
NextPulse ==
  /\ pulsed
  /\ now < HoursPerDay
  /\ now' = now + HoursPerDay
  /\ pulsed' = FALSE
  /\ UNCHANGED <<users, conv, updates, saves, closedAt, prompted, tzPrompted,
                 sent, population, texts, choices, risk, cache, summary, reported, returned, inflight, call, cycle, batch>>

QueueNext ==
  \/ \E hour \in LocalHours : Outreach(hour)
  \/ NextPulse

QueueSpec == QueueInit /\ [][QueueNext]_vars

\* -------------------------------------------------------- the cache refresh
\* What the project source reports of a project in one cycle: whether the
\* listing marks it archived, whether its detail could be fetched, and the
\* custom fields of the detail (display_value || null).
SourceProject(archived, detail, responsable, status, pmoId) ==
  [archived |-> archived, detail |-> detail, responsable |-> responsable,
   status |-> status, pmoId |-> pmoId]

SourceProjects ==
  {SourceProject(TRUE, TRUE, "N", "On Track", 10),
   SourceProject(FALSE, FALSE, "N", "On Track", 10),
   SourceProject(FALSE, TRUE, "N", "Completed", 10),
   SourceProject(FALSE, TRUE, "null", "COMPLETED", NullI),
   SourceProject(FALSE, TRUE, "null", "On Track", NullI),
   SourceProject(FALSE, TRUE, "other", "At Risk", NullI)}

\* A fetch that keeps the projects whose detail call failed.
getAllListedProjects(source) ==
  LET all == [g \in Gids |->
                [gid |-> g, name |-> Name(g), responsable |-> source[g].responsable,
                 status |-> source[g].status, pmoId |-> source[g].pmoId]]
      valid(p) == ~source[p.gid].archived
  IN SelectSeq(all, valid)

\* getAllActiveProjectsWithResponsable: the projects the listing does not mark
\* archived and whose detail was fetched, with the fields of the detail.
getAllActiveProjectsWithResponsable(source) ==
  LET all == [g \in Gids |->
                [gid |-> g, name |-> Name(g), responsable |-> source[g].responsable,
                 status |-> source[g].status, pmoId |-> source[g].pmoId]]
      valid(p) == ~source[p.gid].archived /\ source[p.gid].detail
  IN SelectSeq(all, valid)

\* upsertProjectCache: the record of the project is overwritten with the
\* fetched data.
upsertProjectCache(table, project) ==
  [table EXCEPT ![project.gid] =
     [exists |-> TRUE, name |-> project.name, responsable |-> project.responsable,
      status |-> project.status, pmoId |-> project.pmoId]]

\* deleteProjectCache: the record of the project, if any, is removed.
deleteProjectCache(table, gid) == [table EXCEPT ![gid] = NoProject]

\* A loop body that looks for the missing owner and business id first.
refreshProjectSkippingFirst(acc, project) ==
  IF project.pmoId = NullI /\ project.responsable = "null"
  THEN [acc EXCEPT !.skipped = @ + 1]
  ELSE IF ToLowerCase(project.status) = "completed"
  THEN [acc EXCEPT !.cache = deleteProjectCache(acc.cache, project.gid),
                   !.deleted = @ + 1]
  ELSE [acc EXCEPT !.cache = upsertProjectCache(acc.cache, project),
                   !.updated = @ + 1]

\* The body of the refresh loop for one fetched project.
refreshProject(acc, project) ==
  IF ToLowerCase(project.status) = "completed"
  THEN [acc EXCEPT !.cache = deleteProjectCache(acc.cache, project.gid),
                   !.deleted = @ + 1]
  ELSE IF project.pmoId = NullI /\ project.responsable = "null"
  THEN [acc EXCEPT !.skipped = @ + 1]
  ELSE [acc EXCEPT !.cache = upsertProjectCache(acc.cache, project),
                   !.updated = @ + 1]

RECURSIVE refreshLoop(_, _, _)
refreshLoop(acc, allProjects, i) ==
  IF i > Len(allProjects) THEN acc
  ELSE refreshLoop(refreshProject(acc, allProjects[i]), allProjects, i + 1)

\* The cache-refresh handler: one cycle over what the source reports.
Refresh(source) ==
  LET allProjects == getAllActiveProjectsWithResponsable(source)
      r == refreshLoop([cache |-> cache, updated |-> 0, deleted |-> 0, skipped |-> 0],
                       allProjects, 1)
  IN /\ cache' = r.cache
     /\ summary' = [totalProjects |-> Len(allProjects), updated |-> r.updated,
                     deleted |-> r.deleted, skipped |-> r.skipped]
     /\ reported' = source
     /\ returned' = 200
     /\ UNCHANGED <<now, users, conv, updates, saves, closedAt, pulsed, prompted,
                    tzPrompted, sent, population, texts, choices, risk, inflight,
                    call, cycle, batch>>

\* No user yet; the cache holds every project, filled by an earlier cycle.
CacheInit ==
  /\ now = 0
  /\ users = [u \in AllUsers |-> NoUser]
  /\ conv = [u \in AllUsers |-> NoState]
  /\ updates = {}
  /\ saves = 0
  /\ closedAt = [u \in AllUsers |-> UndefI]
  /\ pulsed = FALSE
  /\ risk = NoRisk
  /\ cache = FullCache
  /\ summary = NoSummary
  /\ reported = <<>>
  /\ returned = UndefI
  /\ inflight = <<>>
  /\ call = <<>>
  /\ cycle = <<>>
  /\ batch = <<>>
  /\ prompted = [u \in AllUsers |-> {}]
  /\ tzPrompted = [u \in AllUsers |-> FALSE]
  /\ sent = <<>>
  /\ population = {}
  /\ texts = {}
  /\ choices = {}

CacheNext == \E source \in [Gids -> SourceProjects] : Refresh(source)

CacheSpec == CacheInit /\ [][CacheNext]_vars

\* ------------------------------------------ calls to the project source
\* The retries a listing call and a detail call are given.
Retries == 3

\* What the project source answers to a call: a result, or an error with its
\* status and its retry-after header.
Answer(status, header) == [status |-> status, header |-> header]

Answers ==
  {Answer(200, "undefined"), Answer(403, "undefined"), Answer(500, "undefined"),
   Answer(429, "undefined"), Answer(429, "0"), Answer(429, "2"), Answer(429, "3")}

\* Number(error?.response?.headers?.['retry-after'] || 0)
retryAfterOf(header) == IF header = "2" THEN 2 ELSE IF header = "3" THEN 3 ELSE 0

\* A call before its first attempt.
NewCall(kind) ==
  [kind |-> kind, attempt |-> 0, phase |-> "calling", delayMs |-> 0,
   status |-> UndefI, slept |-> <<>>]

\* A retry loop that waits a second on a hint that is not positive and does
\* not double the wait.
answeredFlat(c, answer) ==
  IF answer.status = 200
  THEN [c EXCEPT !.phase = "returned", !.status = 200]
  ELSE IF answer.status = 429 /\ c.attempt < Retries
  THEN LET delayMs == IF retryAfterOf(answer.header) > 0
                      THEN retryAfterOf(answer.header) * 1000
                      ELSE 1000
       IN [c EXCEPT !.phase = "sleeping", !.delayMs = delayMs, !.status = 429]
  ELSE [c EXCEPT !.phase = "thrown", !.status = answer.status]

\* getProjectDetailWithRetry and getProjectsPageWithRetry, one pass of the
\* loop: the awaited call of the source has answered.
answered(c, answer) ==
  IF answer.status = 200
  THEN [c EXCEPT !.phase = "returned", !.status = 200]
  ELSE IF answer.status = 429 /\ c.attempt < Retries
  THEN LET delayMs == IF retryAfterOf(answer.header) > 0
                      THEN retryAfterOf(answer.header) * 1000
                      ELSE 1000 * 2 ^ c.attempt
       IN [c EXCEPT !.phase = "sleeping", !.delayMs = delayMs, !.status = 429]
  ELSE [c EXCEPT !.phase = "thrown", !.status = answer.status]

\* The sleep is over: attempt += 1; continue.
woken(c) ==
  [c EXCEPT !.phase = "calling", !.attempt = @ + 1, !.delayMs = 0,
            !.slept = Append(@, c.delayMs)]

\* One listing call or one detail call, alone.
RetryInit ==
  /\ now = 0
  /\ users = [u \in AllUsers |-> NoUser]
  /\ conv = [u \in AllUsers |-> NoState]
  /\ updates = {}
  /\ saves = 0
  /\ closedAt = [u \in AllUsers |-> UndefI]
  /\ pulsed = FALSE
  /\ risk = NoRisk
  /\ cache = FullCache
  /\ summary = NoSummary
  /\ reported = <<>>
  /\ returned = UndefI
  /\ inflight = <<>>
  /\ call \in {NewCall("listing"), NewCall("detail")}
  /\ cycle = <<>>
  /\ batch = <<>>
  /\ prompted = [u \in AllUsers |-> {}]
  /\ tzPrompted = [u \in AllUsers |-> FALSE]
  /\ sent = <<>>
  /\ population = {}
  /\ texts = {}
  /\ choices = {}

CallAnswered(answer) ==
  /\ call.phase = "calling"
  /\ call' = answered(call, answer)
  /\ UNCHANGED <<now, users, conv, updates, saves, closedAt, pulsed, prompted,
                 tzPrompted, sent, population, texts, choices, risk, cache,
                 summary, reported, returned, inflight, cycle, batch>>

CallWoken ==
  /\ call.phase = "sleeping"
  /\ call' = woken(call)
  /\ UNCHANGED <<now, users, conv, updates, saves, closedAt, pulsed, prompted,
                 tzPrompted, sent, population, texts, choices, risk, cache,
                 summary, reported, returned, inflight, cycle, batch>>

RetryNext ==
  \/ \E answer \in Answers : CallAnswered(answer)
  \/ CallWoken

\* The source answers every call, with a result or an error, and a timer that
\* was set fires.
RetrySpec == RetryInit /\ [][RetryNext]_vars /\ WF_vars(RetryNext)

\* ----------------------------------------- the fetch of a refresh, by steps
\* const BATCH_SIZE = 10
BATCH_SIZE == 10

\* The workspaces of the source: each project is listed in one workspace, the
\* workspaces in the order of the listing.
Layouts ==
  {w \in [Gids -> Gids] :
     /\ w[1] = 1
     /\ \A g \in Gids : g > 1 => w[g] \in {w[g - 1], w[g - 1] + 1}}

\* What the source holds of a project during the cycle.
CycleSources ==
  {SourceProject(TRUE, TRUE, "N", "On Track", 10),
   SourceProject(FALSE, TRUE, "N", "Completed", 10),
   SourceProject(FALSE, TRUE, "other", "At Risk", NullI)}

\* What the source answers to the calls of the cycle.
CycleAnswers ==
  {Answer(200, "undefined"), Answer(403, "undefined"), Answer(429, "undefined")}

\* The listing of a workspace, archived projects filtered out.
projectList(c, workspace) ==
  SelectSeq([g \in Gids |-> g],
            LAMBDA g : c.layout[g] = workspace /\ ~c.source[g].archived)

\* batch = projectList.slice(i, i + BATCH_SIZE)
batchOf(list, i) ==
  SubSeq(list, i + 1, IF i + BATCH_SIZE < Len(list) THEN i + BATCH_SIZE ELSE Len(list))

\* A batch of which one failed detail call loses every result.
batchResultsAllOrNothing(c, batchSeq) ==
  IF \E i \in 1..Len(batchSeq) : c.calls[batchSeq[i]].phase = "thrown"
  THEN <<>>
  ELSE batchSeq

\* results.filter(r => r !== null): the projects of the batch whose detail
\* call returned, in the order of the batch.
batchResults(c, batchSeq) ==
  SelectSeq(batchSeq, LAMBDA g : c.calls[g].phase = "returned")

\* The fetch at the listing call of a workspace.
atListing(c, workspace) ==
  [c EXCEPT !.pc = "listing", !.workspace = workspace,
            !.listCall = NewCall("listing"), !.i = 0, !.calls = <<>>]

\* The fetch at the batch that starts at index i of the workspace's list, or,
\* past the last batch, at the next workspace or at the end of the fetch.
atBatch(c, i) ==
  LET list == projectList(c, c.workspace)
      batchSeq == batchOf(list, i)
  IN IF i < Len(list)
     THEN [c EXCEPT !.pc = "details", !.i = i,
                    !.calls = [g \in {batchSeq[k] : k \in 1..Len(batchSeq)} |->
                                 NewCall("detail")]]
     ELSE IF c.workspace < c.layout[NProj]
     THEN atListing(c, c.workspace + 1)
     ELSE [c EXCEPT !.pc = "fetched", !.calls = <<>>]

\* A handler that classifies what was fetched before the listing failed.
failedCyclePartial(c, table) ==
  LET r == refreshLoop([cache |-> table, updated |-> 0, deleted |-> 0, skipped |-> 0],
                       [k \in 1..Len(c.allProjects) |->
                          [gid |-> c.allProjects[k], name |-> Name(c.allProjects[k]),
                           responsable |-> c.source[c.allProjects[k]].responsable,
                           status |-> c.source[c.allProjects[k]].status,
                           pmoId |-> c.source[c.allProjects[k]].pmoId]], 1)
  IN [cache |-> r.cache, summary |-> NoSummary, returned |-> 500]

\* The listing threw: getAllActiveProjectsWithResponsable rethrows and the
\* handler returns 500 from its catch.
failedCycle(c, table) ==
  [cache |-> table, summary |-> NoSummary, returned |-> 500]

\* One cycle: the layout and the content of the source are fixed, the cache
\* holds every project from an earlier cycle.
CycleInit ==
  /\ now = 0
  /\ users = [u \in AllUsers |-> NoUser]
  /\ conv = [u \in AllUsers |-> NoState]
  /\ updates = {}
  /\ saves = 0
  /\ closedAt = [u \in AllUsers |-> UndefI]
  /\ pulsed = FALSE
  /\ risk = NoRisk
  /\ cache = FullCache
  /\ summary = NoSummary
  /\ reported = <<>>
  /\ returned = UndefI
  /\ inflight = <<>>
  /\ call = <<>>
  /\ \E layout \in Layouts, source \in [Gids -> CycleSources] :
       cycle = atListing([layout |-> layout, source |-> source, pc |-> "listing",
                          workspace |-> 1, listCall |-> NewCall("listing"), i |-> 0,
                          calls |-> <<>>, allProjects |-> <<>>, dropped |-> {}], 1)
  /\ batch = <<>>
  /\ prompted = [u \in AllUsers |-> {}]
  /\ tzPrompted = [u \in AllUsers |-> FALSE]
  /\ sent = <<>>
  /\ population = {}
  /\ texts = {}
  /\ choices = {}

\* The listing call of the workspace was answered.
ListAnswered(answer) ==
  LET c == [cycle EXCEPT !.listCall = answered(cycle.listCall, answer)]
      f == failedCycle(c, cache)
  IN /\ cycle.pc = "listing" /\ cycle.listCall.phase = "calling"
     /\ IF c.listCall.phase = "returned"
        THEN cycle' = atBatch(c, 0) /\ UNCHANGED <<cache, summary, returned>>
        ELSE IF c.listCall.phase = "thrown"
        THEN /\ cycle' = [c EXCEPT !.pc = "failed"]
             /\ cache' = f.cache /\ summary' = f.summary /\ returned' = f.returned
        ELSE cycle' = c /\ UNCHANGED <<cache, summary, returned>>
     /\ UNCHANGED <<now, users, conv, updates, saves, closedAt, pulsed, prompted,
                    tzPrompted, sent, population, texts, choices, risk, reported,
                    inflight, call, batch>>

ListWoken ==
  /\ cycle.pc = "listing" /\ cycle.listCall.phase = "sleeping"
  /\ cycle' = [cycle EXCEPT !.listCall = woken(@)]
  /\ UNCHANGED <<now, users, conv, updates, saves, closedAt, pulsed, prompted,
                 tzPrompted, sent, population, texts, choices, risk, cache, summary,
                 reported, returned, inflight, call, batch>>

\* The detail call of a project of the batch was answered.
DetailAnswered(g, answer) ==
  /\ cycle.pc = "details" /\ g \in DOMAIN cycle.calls
  /\ cycle.calls[g].phase = "calling"
  /\ cycle' = [cycle EXCEPT !.calls[g] = answered(@, answer)]
  /\ UNCHANGED <<now, users, conv, updates, saves, closedAt, pulsed, prompted,
                 tzPrompted, sent, population, texts, choices, risk, cache, summary,
                 reported, returned, inflight, call, batch>>

DetailWoken(g) ==
  /\ cycle.pc = "details" /\ g \in DOMAIN cycle.calls
  /\ cycle.calls[g].phase = "sleeping"
  /\ cycle' = [cycle EXCEPT !.calls[g] = woken(@)]
  /\ UNCHANGED <<now, users, conv, updates, saves, closedAt, pulsed, prompted,
                 tzPrompted, sent, population, texts, choices, risk, cache, summary,
                 reported, returned, inflight, call, batch>>

\* await Promise.all(...): every call of the batch is over.
BatchDone ==
  LET batchSeq == batchOf(projectList(cycle, cycle.workspace), cycle.i)
      c == [cycle EXCEPT
              !.allProjects = @ \o batchResults(cycle, batchSeq),
              !.dropped = @ \cup {g \in DOMAIN cycle.calls :
                                     cycle.calls[g].phase = "thrown"}]
  IN /\ cycle.pc = "details"
     /\ \A g \in DOMAIN cycle.calls : cycle.calls[g].phase \in {"returned", "thrown"}
     /\ cycle' = atBatch(c, cycle.i + BATCH_SIZE)
     /\ UNCHANGED <<now, users, conv, updates, saves, closedAt, pulsed, prompted,
                    tzPrompted, sent, population, texts, choices, risk, cache,
                    summary, reported, returned, inflight, call, batch>>

\* The handler classifies what the fetch returned.
Classify ==
  LET allProjects ==
        [k \in 1..Len(cycle.allProjects) |->
           [gid |-> cycle.allProjects[k], name |-> Name(cycle.allProjects[k]),
            responsable |-> cycle.source[cycle.allProjects[k]].responsable,
            status |-> cycle.source[cycle.allProjects[k]].status,
            pmoId |-> cycle.source[cycle.allProjects[k]].pmoId]]
      r == refreshLoop([cache |-> cache, updated |-> 0, deleted |-> 0, skipped |-> 0],
                       allProjects, 1)
  IN /\ cycle.pc = "fetched"
     /\ cycle' = [cycle EXCEPT !.pc = "done"]
     /\ cache' = r.cache
     /\ summary' = [totalProjects |-> Len(allProjects), updated |-> r.updated,
                     deleted |-> r.deleted, skipped |-> r.skipped]
     /\ returned' = 200
     /\ UNCHANGED <<now, users, conv, updates, saves, closedAt, pulsed, prompted,
                    tzPrompted, sent, population, texts, choices, risk, reported,
                    inflight, call, batch>>

CycleNext ==
  \/ \E answer \in CycleAnswers : ListAnswered(answer)
  \/ ListWoken
  \/ \E g \in Gids, answer \in CycleAnswers : DetailAnswered(g, answer)
  \/ \E g \in Gids : DetailWoken(g)
  \/ BatchDone
  \/ Classify

CycleSpec == CycleInit /\ [][CycleNext]_vars

\* ------------------------------------------- the batches of detail calls
\* The promise of an entry of batch.map: pending with its call, or settled
\* with the project or with null.
promiseOf(c) ==
  IF c.phase = "returned" THEN [NewCall("detail") EXCEPT !.phase = "project"]
  ELSE IF c.phase = "thrown" THEN [NewCall("detail") EXCEPT !.phase = "null"]
  ELSE c

Settled(c) == c.phase \in {"project", "null"}

\* How many entries of the bag satisfy the test.
CountIn(bag, Test(_)) ==
  BagCardinality([c \in {d \in BagToSet(bag) : Test(d)} |-> CopiesIn(c, bag)])

Pending(bag) == [c \in {d \in BagToSet(bag) : ~Settled(d)} |-> CopiesIn(c, bag)]

\* The calls of the batch that starts at index i of a list of n projects.
startedBatch(n, i) ==
  LET size == IF i + BATCH_SIZE < n THEN BATCH_SIZE ELSE n - i
  IN IF size > 0 THEN [c \in {NewCall("detail")} |-> size] ELSE EmptyBag

\* A loop that starts the next batch without awaiting the one in progress.
awaitedNothing(bag) == TRUE

\* await Promise.all(batch.map(...)): every promise of the batch is settled.
awaitedAll(bag) == \A c \in BagToSet(bag) : Settled(c)

\* One workspace with NListed projects that are not archived; the first batch
\* has been started.
BatchInit ==
  /\ now = 0
  /\ users = [u \in AllUsers |-> NoUser]
  /\ conv = [u \in AllUsers |-> NoState]
  /\ updates = {}
  /\ saves = 0
  /\ closedAt = [u \in AllUsers |-> UndefI]
  /\ pulsed = FALSE
  /\ risk = NoRisk
  /\ cache = FullCache
  /\ summary = NoSummary
  /\ reported = <<>>
  /\ returned = UndefI
  /\ inflight = <<>>
  /\ call = <<>>
  /\ cycle = <<>>
  /\ batch = [listed |-> NListed, i |-> 0, calls |-> startedBatch(NListed, 0),
              projects |-> 0, nulls |-> 0]
  /\ prompted = [u \in AllUsers |-> {}]
  /\ tzPrompted = [u \in AllUsers |-> FALSE]
  /\ sent = <<>>
  /\ population = {}
  /\ texts = {}
  /\ choices = {}

\* The source answered one of the detail calls in flight.
BatchCallAnswered(c, answer) ==
  /\ BagIn(c, batch.calls) /\ c.phase = "calling"
  /\ batch' = [batch EXCEPT
                 !.calls = (@ (-) SetToBag({c})) (+) SetToBag({promiseOf(answered(c, answer))})]
  /\ UNCHANGED <<now, users, conv, updates, saves, closedAt, pulsed, prompted,
                 tzPrompted, sent, population, texts, choices, risk, cache, summary,
                 reported, returned, inflight, call, cycle>>

\* The sleep of one of the calls is over.
BatchCallWoken(c) ==
  /\ BagIn(c, batch.calls) /\ c.phase = "sleeping"
  /\ batch' = [batch EXCEPT
                 !.calls = (@ (-) SetToBag({c})) (+) SetToBag({woken(c)})]
  /\ UNCHANGED <<now, users, conv, updates, saves, closedAt, pulsed, prompted,
                 tzPrompted, sent, population, texts, choices, risk, cache, summary,
                 reported, returned, inflight, call, cycle>>

\* The loop goes on to the next batch; the calls that are not settled go on.
NextBatch ==
  /\ batch.i < batch.listed
  /\ awaitedAll(batch.calls)
  /\ batch' = [batch EXCEPT
                 !.i = @ + BATCH_SIZE,
                 !.calls = Pending(@) (+) startedBatch(batch.listed, batch.i + BATCH_SIZE),
                 !.projects = @ + CopiesIn([NewCall("detail") EXCEPT !.phase = "project"],
                                           batch.calls),
                 !.nulls = @ + CopiesIn([NewCall("detail") EXCEPT !.phase = "null"],
                                        batch.calls)]
  /\ UNCHANGED <<now, users, conv, updates, saves, closedAt, pulsed, prompted,
                 tzPrompted, sent, population, texts, choices, risk, cache, summary,
                 reported, returned, inflight, call, cycle>>

BatchNext ==
  \/ \E c \in BagToSet(batch.calls), answer \in CycleAnswers : BatchCallAnswered(c, answer)
  \/ \E c \in BagToSet(batch.calls) : BatchCallWoken(c)
  \/ NextBatch

BatchSpec == BatchInit /\ [][BatchNext]_vars

\* ------------------------------------------------- the users table alone
\* The objects saveUser may be handed: every optional key set or absent.
UserDatas ==
  [timezone : {"undefined"} \cup Timezones,
   onboarded : {"undefined", "true", "false"},
   asanaEmail : {"undefined", "pm@example.com"}]

RoundTripInit ==
  /\ now = 0
  /\ users = [u \in AllUsers |-> NoUser]
  /\ conv = [u \in AllUsers |-> NoState]
  /\ updates = {}
  /\ saves = 0
  /\ closedAt = [u \in AllUsers |-> UndefI]
  /\ pulsed = FALSE
  /\ risk = NoRisk
  /\ cache = FullCache
  /\ summary = NoSummary
  /\ reported = <<>>
  /\ returned = UndefI
  /\ inflight = <<>>
  /\ call = <<>>
  /\ cycle = <<>>
  /\ batch = <<>>
  /\ prompted = [u \in AllUsers |-> {}]
  /\ tzPrompted = [u \in AllUsers |-> FALSE]
  /\ sent = <<>>
  /\ population = AllUsers
  /\ texts = {}
  /\ choices = {}

\* saveUser(userData) with slackUserId = u: the put, and the item returned.
SaveUser(u, userData) ==
  /\ u \in population
  /\ users' = [users EXCEPT ![u] = saveUser(userData)]
  /\ returned' = saveUser(userData)
  /\ UNCHANGED <<now, conv, updates, saves, closedAt, pulsed, prompted, tzPrompted,
                 sent, population, texts, choices, risk, cache, summary, reported,
                 inflight, call, cycle, batch>>

\* getUser(u): the item returned.
GetUser(u) ==
  /\ u \in population
  /\ returned' = getUser(users, u)
  /\ UNCHANGED <<now, users, conv, updates, saves, closedAt, pulsed, prompted,
                 tzPrompted, sent, population, texts, choices, risk, cache, summary,
                 reported, inflight, call, cycle, batch>>

RoundTripNext ==
  \/ \E u \in AllUsers, userData \in UserDatas : SaveUser(u, userData)
  \/ \E u \in AllUsers : GetUser(u)

RoundTripSpec == RoundTripInit /\ [][RoundTripNext]_vars

\* --------------------------------------------- the execution-time ceiling
\* The batch loop of BatchSpec while the time the platform allows the cycle
\* runs out: `late` is set once the ceiling is near.  The loop reads no clock.
CeilingInit ==
  /\ now = 0
  /\ users = [u \in AllUsers |-> NoUser]
  /\ conv = [u \in AllUsers |-> NoState]
  /\ updates = {}
  /\ saves = 0
  /\ closedAt = [u \in AllUsers |-> UndefI]
  /\ pulsed = FALSE
  /\ risk = NoRisk
  /\ cache = FullCache
  /\ summary = NoSummary
  /\ reported = <<>>
  /\ returned = UndefI
  /\ inflight = <<>>
  /\ call = <<>>
  /\ cycle = <<>>
  /\ batch = [listed |-> NListed, i |-> 0, calls |-> startedBatch(NListed, 0),
              projects |-> 0, nulls |-> 0, late |-> FALSE]
  /\ prompted = [u \in AllUsers |-> {}]
  /\ tzPrompted = [u \in AllUsers |-> FALSE]
  /\ sent = <<>>
  /\ population = {}
  /\ texts = {}
  /\ choices = {}

\* Time passes: the ceiling of the invocation is near from now on.
CeilingNears ==
  /\ ~batch.late
  /\ batch' = [batch EXCEPT !.late = TRUE]
  /\ UNCHANGED <<now, users, conv, updates, saves, closedAt, pulsed, prompted,
                 tzPrompted, sent, population, texts, choices, risk, cache, summary,
                 reported, returned, inflight, call, cycle>>

CeilingNext ==
  \/ BatchNext
  \/ CeilingNears

CeilingSpec == CeilingInit /\ [][CeilingNext]_vars

\* ------------------------------------------- two clicks of the same user
\* Two invocations of handleBlockActions run at once for one user.  Each one
\* takes three steps on the conversation item: the handler reads it, then
\* conversation-state.setConversationState reads it again and merges the
\* handler's object over what it read, then dynamo.setConversationState puts
\* the merged item.
Invocations == {"first", "second"}
Clicker == "U1"
Idle == [pc |-> "idle", kind |-> "undefined", gid |-> UndefI, value |-> "undefined",
         state |-> NoState, base |-> NoState, item |-> NoState]

\* The object the handler hands to setConversationState, from its own read.
clickFields(slot, t) ==
  IF slot.kind = "status" THEN statusFields(slot.state, slot.gid, slot.value, t)
  ELSE blockersFields(slot.state, slot.value, t)

\* conversation-state.setConversationState up to the put: the item merged
\* from the item read there and the handler's object.
mergedItem(currentState, state, u) ==
  [Spread(currentState, state) EXCEPT !.slackUserId = u]

\* A put that gives way when the item changed since it was read.
putItemGuarded(stored, base, item, t) ==
  IF stored = base THEN dynamoSetConversationState(item, t) ELSE stored

\* dynamo.setConversationState: a PutCommand with no condition; the item
\* replaces the stored one, whatever it is by now.
putItem(stored, base, item, t) ==
  dynamoSetConversationState(item, t)

RaceInit ==
  /\ now = 0
  /\ users = [u \in AllUsers |-> IF u = Clicker THEN Onboarded ELSE NoUser]
  /\ updates = {}
  /\ saves = 0
  /\ closedAt = [u \in AllUsers |-> UndefI]
  /\ pulsed = TRUE
  /\ risk = NoRisk
  /\ cache = FullCache
  /\ summary = NoSummary
  /\ reported = <<>>
  /\ returned = UndefI
  /\ conv = [u \in AllUsers |->
               IF u = Clicker
               THEN OutreachUser(Onboarded, NoState, {}, 9, Clicker, 0).conv
               ELSE NoState]
  /\ inflight = [i \in Invocations |-> Idle]
  /\ call = <<>>
  /\ cycle = <<>>
  /\ batch = <<>>
  /\ prompted = [u \in AllUsers |-> IF u = Clicker THEN {1} ELSE {}]
  /\ tzPrompted = [u \in AllUsers |-> u = Clicker]
  /\ sent = <<>>
  /\ population = {Clicker}
  /\ texts = {}
  /\ choices = {"on_track", "at_risk"}

\* An invocation starts on a click and reads the conversation item.
ClickReceived(i, kind, projectGid, value) ==
  /\ inflight[i].pc = "idle"
  /\ projectGid \in prompted[Clicker]
  /\ \/ kind = "status" /\ value \in choices
     \/ kind = "blockers" /\ value \in BlockerValues
  /\ inflight' = [inflight EXCEPT
                    ![i] = [Idle EXCEPT !.pc = "read", !.kind = kind,
                                        !.gid = projectGid, !.value = value,
                                        !.state = conv[Clicker]]]
  /\ UNCHANGED <<now, users, conv, updates, saves, closedAt, pulsed, prompted,
                 tzPrompted, sent, population, texts, choices, risk, cache, summary,
                 reported, returned, call, cycle, batch>>

\* setConversationState reads the item again and merges.
ClickMerged(i) ==
  /\ inflight[i].pc = "read"
  /\ inflight' = [inflight EXCEPT
                    ![i] = [@ EXCEPT
                              !.pc = "merged",
                              !.base = conv[Clicker],
                              !.item = mergedItem(conv[Clicker],
                                                  clickFields(inflight[i], now),
                                                  Clicker)]]
  /\ UNCHANGED <<now, users, conv, updates, saves, closedAt, pulsed, prompted,
                 tzPrompted, sent, population, texts, choices, risk, cache, summary,
                 reported, returned, call, cycle, batch>>

\* The put, then the rest of the branch: the blockers branch asks for the
\* advances, the status branch sends nothing.
ClickStored(i) ==
  /\ inflight[i].pc = "merged"
  /\ conv' = [conv EXCEPT
                ![Clicker] = putItem(conv[Clicker], inflight[i].base,
                                     inflight[i].item, now)]
  /\ inflight' = [inflight EXCEPT ![i] = [@ EXCEPT !.pc = "done"]]
  /\ Delivered(IF inflight[i].kind = "blockers"
               THEN <<Msg(Clicker, "advances_prompt", UndefI)>> ELSE <<>>)
  /\ returned' = 200
  /\ UNCHANGED <<now, users, updates, saves, closedAt, pulsed, population, texts,
                 choices, risk, cache, summary, reported, call, cycle, batch>>

RaceNext ==
  \/ \E i \in Invocations, kind \in {"status", "blockers"}, projectGid \in Gids,
        value \in Statuses \cup BlockerValues :
       ClickReceived(i, kind, projectGid, value)
  \/ \E i \in Invocations : ClickMerged(i)
  \/ \E i \in Invocations : ClickStored(i)

RaceSpec == RaceInit /\ [][RaceNext]_vars

\* ------------------------------------------------------------- onboarding
\* Unknown users who may answer the name prompt with a single character.
OnboardInit ==
  /\ now = 0
  /\ users = [u \in AllUsers |-> NoUser]
  /\ conv = [u \in AllUsers |-> NoState]
  /\ updates = {}
  /\ saves = 0
  /\ closedAt = [u \in AllUsers |-> UndefI]
  /\ pulsed = FALSE
  /\ risk = NoRisk
  /\ cache = FullCache
  /\ summary = NoSummary
  /\ reported = <<>>
  /\ returned = UndefI
  /\ inflight = <<>>
  /\ call = <<>>
  /\ cycle = <<>>
  /\ batch = <<>>
  /\ prompted = [u \in AllUsers |-> {}]
  /\ tzPrompted = [u \in AllUsers |-> FALSE]
  /\ sent = <<>>
  /\ population = AllUsers
  /\ texts = {"all good", "1", "reset"}
  /\ choices = {}

\* The messages and the time-zone clicks of these users, and the clock.
OnboardNext ==
  \/ Tick
  \/ \E u \in AllUsers, text \in AllTexts, n \in ResultCounts : Message(u, text, n)
  \/ \E u \in AllUsers, tz \in Timezones : TimezoneClick(u, tz)

OnboardSpec == OnboardInit /\ [][OnboardNext]_vars

\* ------------------------------------------------ a sweep and the clicks
\* The reminder sweep in two steps, the scan of the active items and the
\* loop over what the scan returned, with the clicks of the user in between.
NoScan == [pc |-> "idle", states |-> <<>>]

SweepRaceInit ==
  /\ now = 0
  /\ users = [u \in AllUsers |-> IF u = Clicker THEN Onboarded ELSE NoUser]
  /\ updates = {}
  /\ saves = 0
  /\ closedAt = [u \in AllUsers |-> UndefI]
  /\ pulsed = TRUE
  /\ risk = NoRisk
  /\ cache = FullCache
  /\ summary = NoSummary
  /\ reported = <<>>
  /\ returned = UndefI
  /\ conv = [u \in AllUsers |->
               IF u = Clicker
               THEN OutreachUser(Onboarded, NoState, {}, 9, Clicker, 0).conv
               ELSE NoState]
  /\ inflight = NoScan
  /\ call = <<>>
  /\ cycle = <<>>
  /\ batch = <<>>
  /\ prompted = [u \in AllUsers |-> IF u = Clicker THEN {1} ELSE {}]
  /\ tzPrompted = [u \in AllUsers |-> u = Clicker]
  /\ sent = <<>>
  /\ population = {Clicker}
  /\ texts = {}
  /\ choices = {"on_track", "at_risk"}

\* const states = await dynamoService.getActiveConversationStates()
SweepScanned ==
  /\ inflight.pc = "idle"
  /\ inflight' = [pc |-> "scanned",
                  states |-> [u \in getActiveConversationStates(conv) |-> conv[u]]]
  /\ UNCHANGED <<now, users, conv, updates, saves, closedAt, pulsed, prompted,
                 tzPrompted, sent, population, texts, choices, risk, cache, summary,
                 reported, returned, call, cycle, batch>>

\* The loop over the scanned items, each against the item stored by now.
SweepLooped ==
  LET states == inflight.states
      r == [u \in AllUsers |->
              IF u \in DOMAIN states
              THEN sweepLoopBody(states[u], conv[u], updates, u, now)
              ELSE [conv |-> conv[u], msgs |-> <<>>]]
  IN /\ inflight.pc = "scanned"
     /\ inflight' = NoScan
     /\ conv' = [u \in AllUsers |-> r[u].conv]
     /\ Delivered(Flatten([u \in AllUsers |-> r[u].msgs], 1))
     /\ returned' = 200
     /\ UNCHANGED <<now, users, updates, saves, closedAt, pulsed, population, texts,
                    choices, risk, cache, summary, reported, call, cycle, batch>>

SweepRaceNext ==
  \/ Tick
  \/ \E u \in AllUsers, g \in Gids, v \in Statuses : StatusClick(u, g, v)
  \/ \E u \in AllUsers, g \in Gids, v \in BlockerValues : BlockersClick(u, g, v)
  \/ SweepScanned
  \/ SweepLooped

SweepRaceSpec == SweepRaceInit /\ [][SweepRaceNext]_vars

\* ------------------------------------------- a store that expires on time
\* The clock moves on and the store deletes, at that very time, every
\* conversation item whose expiry has come.
TickExpiring ==
  /\ now < MaxTime
  /\ now' = now + 1
  /\ conv' = [u \in AllUsers |->
                IF conv[u].exists /\ conv[u].expiresAt <= now + 1
                THEN NoState ELSE conv[u]]
  /\ sent' = <<>>
  /\ UNCHANGED <<users, updates, saves, closedAt, pulsed, prompted, tzPrompted,
                 population, texts, choices, risk, cache, summary, reported,
                 returned, inflight, call, cycle, batch>>

\* The flows of ReminderSpec over a store that deletes at the expiry time.
StallNext ==
  \/ TickExpiring
  \/ \E u \in AllUsers, text \in AllTexts : Message(u, text, 0)
  \/ \E u \in AllUsers, v \in Statuses :
       isInUpdateFlow(conv[u]) /\ StatusClick(u, conv[u].currentProjectGid, v)
  \/ \E u \in AllUsers, v \in BlockerValues :
       isInUpdateFlow(conv[u]) /\ BlockersClick(u, conv[u].currentProjectGid, v)
  \/ \E hour \in LocalHours : Outreach(hour)
  \/ Sweep

StallSpec == ReminderInit /\ [][StallNext]_vars

\* --------------------------------------------------- failing store calls
\* The interactions of FlowSpec, and the same interactions with a call of
\* the invocation failing.  dynamo.getUser, dynamo.setConversationState and
\* dynamo.saveUpdate log and rethrow; dynamo.getConversationState logs and
\* returns null; dynamo.clearConversationState logs and returns.

\* The catch of exports.handler: the error is logged and the answer to the
\* platform is 500; nothing is sent and nothing is stored.
handlerCaught ==
  /\ returned' = 500
  /\ Delivered(<<>>)
  /\ UNCHANGED <<now, users, conv, updates, saves, closedAt, pulsed, population,
                 texts, choices, risk, cache, summary, reported, inflight, call,
                 cycle, batch>>

\* A direct message; the read of the user item by handleEventCallback fails.
MessageUserReadFailing(u, text) ==
  /\ u \in population /\ text \in texts
  /\ handlerCaught

\* A status click; the put of the merged conversation item fails.
StatusClickWriteFailing(u, projectGid, value) ==
  /\ u \in population /\ projectGid \in prompted[u] /\ value \in choices
  /\ handlerCaught

\* A direct message that goes to the agent; the agent call fails and the
\* catch of handleWithAgent sends the apology.
MessageAgentFailing(u, text, n) ==
  /\ u \in population /\ text \in texts
  /\ n = 0 \/ extractSearchQuery(text) # "null"
  /\ users[u].exists /\ users[u].onboarded = "true"
  /\ handleAdvancesText(users[u], conv[u], updates, text, n, u, now).msgs
       = handleWithAgent(u)
  /\ Delivered(<<Msg(u, "apology", UndefI)>>)
  /\ returned' = 200
  /\ UNCHANGED <<now, users, conv, updates, saves, closedAt, pulsed, population,
                 texts, choices, risk, cache, summary, reported, inflight, call,
                 cycle, batch>>

\* A direct message of an onboarded user; the reads of the conversation
\* item fail, so that handleAdvancesText and setConversationState go on with
\* null.  Nothing is put when the handler stores nothing.
MessageReadFailing(u, text, n) ==
  /\ u \in population /\ text \in texts
  /\ n = 0 \/ extractSearchQuery(text) # "null"
  /\ users[u].exists /\ users[u].onboarded = "true"
  /\ LET r == handleAdvancesText(users[u], NoState, updates, text, n, u, now)
     IN /\ r.saved = 0
        /\ users' = [users EXCEPT ![u] = r.user]
        /\ conv' = IF r.conv = NoState THEN conv ELSE [conv EXCEPT ![u] = r.conv]
        /\ Delivered(r.msgs)
  /\ returned' = 200
  /\ UNCHANGED <<now, updates, saves, closedAt, pulsed, population, texts, choices,
                 risk, cache, summary, reported, inflight, call, cycle, batch>>

\* A direct message that closes the last project of the queue; the put of
\* the terminal marker fails, and the item stays as it was.
MessageClearFailing(u, text, n) ==
  /\ u \in population /\ text \in texts
  /\ n = 0 \/ extractSearchQuery(text) # "null"
  /\ users[u].exists /\ users[u].onboarded = "true"
  /\ LET r == handleAdvancesText(users[u], conv[u], updates, text, n, u, now)
     IN /\ r.saved = 1 /\ closedAt[u] < now
        /\ r.conv = clearConversationState(now)
        /\ closedAt' = [closedAt EXCEPT ![u] = now]
        /\ updates' = r.updates
        /\ saves' = saves + 1
        /\ Delivered(r.msgs)
  /\ returned' = 200
  /\ UNCHANGED <<now, users, conv, pulsed, population, texts, choices, risk, cache,
                 summary, reported, inflight, call, cycle, batch>>

\* A blockers click; the reads of the conversation item fail, in the handler
\* and in setConversationState, and the put goes through.
BlockersClickReadFailing(u, projectGid, value) ==
  /\ u \in population /\ projectGid \in prompted[u]
  /\ conv' = [conv EXCEPT ![u] = BlockersClickState(NoState, value, u, now)]
  /\ Delivered(<<Msg(u, "advances_prompt", UndefI)>>)
  /\ returned' = 200
  /\ UNCHANGED <<now, users, updates, saves, closedAt, pulsed, population, texts,
                 choices, risk, cache, summary, reported, inflight, call, cycle, batch>>

\* An inbound invocation of user u in which a store call fails.
StoreFailing(u) ==
  \/ \E text \in AllTexts : MessageUserReadFailing(u, text)
  \/ \E g \in Gids, v \in Statuses : StatusClickWriteFailing(u, g, v)
  \/ \E text \in AllTexts, n \in ResultCounts : MessageReadFailing(u, text, n)
  \/ \E text \in AllTexts, n \in ResultCounts : MessageClearFailing(u, text, n)
  \/ \E g \in Gids, v \in BlockerValues : BlockersClickReadFailing(u, g, v)

FaultNext ==
  \/ FlowNext
  \/ \E u \in AllUsers : StoreFailing(u)
  \/ \E u \in AllUsers, text \in AllTexts, n \in ResultCounts :
       MessageAgentFailing(u, text, n)

FaultSpec == FlowInit /\ [][FaultNext]_vars

\* ------------------------------------------------- the risk detector alone
AnyStatus == Statuses \cup {"unknown", "null"}
AnyFlag == {"true", "false", "null", "undefined"}

RECURSIVE SeqsUpTo(_, _)
SeqsUpTo(S, n) ==
  IF n = 0 THEN {<<>>}
  ELSE LET shorter == SeqsUpTo(S, n - 1)
       IN shorter \cup {Append(q, x) : q \in shorter, x \in S}

RiskInit ==
  /\ now = 0
  /\ users = [u \in AllUsers |-> NoUser]
  /\ conv = [u \in AllUsers |-> NoState]
  /\ updates = {}
  /\ saves = 0
  /\ closedAt = [u \in AllUsers |-> UndefI]
  /\ pulsed = FALSE
  /\ prompted = [u \in AllUsers |-> {}]
  /\ tzPrompted = [u \in AllUsers |-> FALSE]
  /\ sent = <<>>
  /\ population = {}
  /\ texts = {}
  /\ choices = {}
  /\ cache = FullCache
  /\ summary = NoSummary
  /\ reported = <<>>
  /\ returned = UndefI
  /\ inflight = <<>>
  /\ call = <<>>
  /\ cycle = <<>>
  /\ batch = <<>>
  /\ risk \in [currentUpdate : [status : AnyStatus, hasBlockers : AnyFlag],
               previousUpdates : SeqsUpTo([status : AnyStatus], MaxPrior),
               result : {"none"}]

\* One call of shouldAlert on the drawn inputs.
Evaluate ==
  /\ risk.result = "none"
  /\ risk' = [risk EXCEPT !.result =
        IF shouldAlert(risk.currentUpdate, risk.previousUpdates).shouldAlert
        THEN "alert" ELSE "quiet"]
  /\ UNCHANGED <<now, users, conv, updates, saves, closedAt, pulsed, prompted,
                 tzPrompted, sent, population, texts, choices, cache, summary, reported, returned, inflight, call, cycle, batch>>

RiskSpec == RiskInit /\ [][Evaluate]_vars

\* --------------------------------------------------------------- properties
FlowSteps == {"awaiting_status", "awaiting_blockers", "awaiting_advances"}

\* The item holds a queue and an index into it.
HasQueue(s) ==
  /\ s.exists
  /\ Len(s.pendingProjects) >= 1
  /\ s.currentIndex \in 0..(Len(s.pendingProjects) - 1)

\* The queue entry the index points at.
Active(s) == s.pendingProjects[s.currentIndex + 1]

\* The step is a free-text message of u that closes a cycle.
Closes(u) == closedAt'[u] # closedAt[u]

HasAlert(msgs) == \E i \in 1..Len(msgs) : msgs[i].kind = "alert"

Requests(msgs) == {i \in 1..Len(msgs) : msgs[i].kind = "update_request"}

\* C1: in every stored conversation item whose step is awaiting_status,
\* awaiting_blockers or awaiting_advances, currentIndex is a valid index of
\* pendingProjects and the active project's gid, name and PMO id are those of
\* pendingProjects[currentIndex].
C1_ActiveMatchesQueue ==
  \A u \in AllUsers :
    (conv[u].exists /\ conv[u].step \in FlowSteps) =>
      /\ HasQueue(conv[u])
      /\ conv[u].currentProjectGid = Active(conv[u]).gid
      /\ conv[u].currentProjectName = Active(conv[u]).name
      /\ conv[u].currentProjectPmoId = Active(conv[u]).pmoId

\* C2: when a free-text message closes a cycle for project P, an escalation is
\* sent iff shouldAlert holds of the closed answers against the updates of P
\* that existed before the one just written (at most two, newest first); so
\* the first at_risk update of a project without blockers sends none.
C2_AlertAgainstPriorUpdates ==
  [][\A u \in AllUsers :
       Closes(u) =>
         LET s == conv[u]
             prior == getLastUpdates(updates, s.currentProjectGid, 2)
         IN HasAlert(sent') <=>
              shouldAlert([status |-> s.status, hasBlockers |-> s.hasBlockers],
                          prior).shouldAlert]_vars

\* The alert condition as the specification words it.
AlertCondition(current, priorUpdates) ==
  \/ current.status = "off_track"
  \/ /\ current.status = "at_risk"
     /\ Len(priorUpdates) > 0
     /\ priorUpdates[1].status = "at_risk"
  \/ current.hasBlockers = "true" /\ current.status # "on_track"

\* C3: shouldAlert answers true iff the current status is off_track, or it is
\* at_risk and the first of the prior updates is at_risk too, or the update
\* has blockers and its status is not on_track; no prior update other than
\* the first has a say.
C3_ShouldAlertIff ==
  risk.result # "none" =>
    (risk.result = "alert" <=> AlertCondition(risk.currentUpdate, risk.previousUpdates))

\* An at_risk update without blockers alerts on an at_risk predecessor,
\* whatever the update before that one says.
C3_Witness ==
  /\ risk.result = "alert"
  /\ risk.currentUpdate.status = "at_risk"
  /\ risk.currentUpdate.hasBlockers = "false"
  /\ Len(risk.previousUpdates) = 2
  /\ risk.previousUpdates[1].status = "at_risk"
  /\ risk.previousUpdates[2].status = "on_track"

\* C4: on a queue of length K >= 1 at index i, the advance a closing message
\* makes moves the index to i + 1 and asks for the status of that entry when
\* i + 1 < K, and clears the item when i + 1 = K; the index moves in no other
\* way and the item is cleared at no other index, so counting from index 0 the
\* item is cleared on exactly the K-th call.
C4_ClearedOnKthAdvance ==
  [][\A u \in AllUsers :
       LET s == conv[u]
           s2 == conv'[u]
           K == Len(s.pendingProjects)
       IN HasQueue(s) =>
            /\ Closes(u) =>
                 IF s.currentIndex + 1 < K
                 THEN /\ s2.exists /\ s2.step = "awaiting_status"
                      /\ s2.cleared # "true"
                      /\ s2.pendingProjects = s.pendingProjects
                      /\ s2.currentIndex = s.currentIndex + 1
                      /\ s2.currentProjectGid = s.pendingProjects[s.currentIndex + 2].gid
                 ELSE /\ s2.cleared = "true" /\ s2.step = "undefined"
                      /\ s2.pendingProjects = <<>>
            /\ (s2.exists /\ s2.pendingProjects # <<>> /\ s2.currentIndex # s.currentIndex)
                 => (Closes(u) /\ s2.currentIndex = s.currentIndex + 1)
            /\ (s2.cleared = "true" /\ s.cleared # "true")
                 => (Closes(u) /\ s.currentIndex + 1 = K)]_vars

\* The whole queue was walked: every project has its update and the item is
\* cleared.
C4_Witness ==
  /\ conv["U1"].cleared = "true"
  /\ conv["U1"].step = "undefined"
  /\ saves = NProj
  /\ {x.pk : x \in updates} = Gids
  /\ \E i \in 1..Len(sent) : sent[i].kind = "update_registered"

\* The item stands on the first entry of a queue of two or more.
OnFirst(s) ==
  /\ s.exists
  /\ Len(s.pendingProjects) >= 2
  /\ s.currentIndex = 0
  /\ s.currentProjectGid = s.pendingProjects[1].gid

\* C5: from awaiting_status on the first project P1 of a queue [P1, P2, ...],
\* the click on_track leads to awaiting_blockers on P1, the click no from
\* there to awaiting_advances on P1, and the text "all good" from there
\* writes exactly one update (of P1, on_track, no blockers), sends no
\* escalation, and leaves the item at awaiting_status on P2 with index 1 and
\* the answers reset, with exactly one update request, for P2, sent.
C5_TwoProjectScenario ==
  [][\A u \in AllUsers :
       LET s == conv[u]
           s2 == conv'[u]
       IN OnFirst(s) =>
            /\ (s.step = "awaiting_status" /\ StatusClick(u, s.currentProjectGid, "on_track"))
                 => /\ OnFirst(s2) /\ s2.pendingProjects = s.pendingProjects
                    /\ s2.step = "awaiting_blockers" /\ s2.status = "on_track"
                    /\ updates' = updates /\ sent' = <<>>
            /\ (/\ s.step = "awaiting_blockers" /\ s.status = "on_track"
                /\ BlockersClick(u, s.currentProjectGid, "no"))
                 => /\ OnFirst(s2) /\ s2.pendingProjects = s.pendingProjects
                    /\ s2.step = "awaiting_advances" /\ s2.status = "on_track"
                    /\ s2.hasBlockers = "false"
                    /\ updates' = updates /\ ~HasAlert(sent')
            /\ (/\ s.step = "awaiting_advances" /\ s.status = "on_track"
                /\ s.hasBlockers = "false"
                /\ Message(u, "all good", 0))
                 => /\ saves' = saves + 1
                    /\ updates \subseteq updates'
                    /\ updates' \ updates =
                         {UpdateItem(s.pendingProjects[1].gid, now, u, "on_track",
                                     "false", "all good")}
                    /\ ~HasAlert(sent')
                    /\ s2.exists /\ s2.step = "awaiting_status"
                    /\ s2.pendingProjects = s.pendingProjects
                    /\ s2.currentIndex = 1
                    /\ s2.currentProjectGid = s.pendingProjects[2].gid
                    /\ s2.currentProjectName = s.pendingProjects[2].name
                    /\ s2.status = "null" /\ s2.hasBlockers = "null"
                    /\ Cardinality(Requests(sent')) = 1
                    /\ \E i \in Requests(sent') :
                         sent'[i] = Msg(u, "update_request", s.pendingProjects[2].gid)]_vars

\* The scenario has run: one update, of the first project, and the request
\* for the second one just sent.
C5_Witness ==
  LET s == conv["U1"]
  IN /\ s.exists /\ s.step = "awaiting_status" /\ s.currentIndex = 1
     /\ Len(s.pendingProjects) >= 2
     /\ s.currentProjectGid = s.pendingProjects[2].gid
     /\ s.status = "null" /\ s.hasBlockers = "null"
     /\ saves = 1
     /\ \E x \in updates :
          /\ updates = {x}
          /\ x.pk = s.pendingProjects[1].gid
          /\ x.status = "on_track" /\ x.hasBlockers = "false"
     /\ ~HasAlert(sent)
     /\ \E i \in 1..Len(sent) :
          sent[i] = Msg("U1", "update_request", s.pendingProjects[2].gid)

\* C6: the updates form an append-only log: a step that closes a cycle adds
\* exactly one record, no other step adds one, and no step changes or removes
\* a record that exists (no two closures write under the same key).
C6_AppendOnlyLog ==
  [][/\ updates \subseteq updates'
     /\ (\E u \in AllUsers : Closes(u))
          => Cardinality(updates') = Cardinality(updates) + 1
     /\ (\A u \in AllUsers : ~Closes(u)) => updates' = updates]_vars

\* C7: every update written by the flow has a project identifier that is not
\* null, a status among on_track, at_risk, off_track and a boolean blocker
\* flag (awaiting_advances is reached only through a status answer and then a
\* blockers answer).
C7_UpdatesWellFormed ==
  \A x \in updates :
    /\ Defined(x.pk)
    /\ x.status \in Statuses
    /\ x.hasBlockers \in {"true", "false"}

\* C8: a status click for project g at awaiting_status stores the status,
\* moves to awaiting_blockers and keeps the active project; name and PMO id
\* are those of the queue entry with gid g when there is one, otherwise those
\* of the stored item; pendingProjects and currentIndex stay.
C8_StatusClickKeepsProject ==
  [][\A u \in AllUsers, g \in Gids, v \in Statuses :
       LET s == conv[u]
           s2 == conv'[u]
           hits == {i \in 1..Len(s.pendingProjects) : s.pendingProjects[i].gid = g}
       IN (s.exists /\ s.step = "awaiting_status" /\ StatusClick(u, g, v)) =>
            /\ s2.status = v
            /\ s2.step = "awaiting_blockers"
            /\ s2.currentProjectGid = s.currentProjectGid
            /\ IF hits # {}
               THEN \E i \in hits :
                      /\ s2.currentProjectName = s.pendingProjects[i].name
                      /\ s2.currentProjectPmoId = s.pendingProjects[i].pmoId
               ELSE /\ s2.currentProjectName = OrNull(s.currentProjectName)
                    /\ s2.currentProjectPmoId = OrNull(s.currentProjectPmoId)
            /\ s2.pendingProjects = s.pendingProjects
            /\ s2.currentIndex = s.currentIndex]_vars

\* C9: a blockers click at awaiting_blockers stores hasBlockers (true for
\* yes, false for no), moves to awaiting_advances, sends the user one
\* free-text prompt and nothing else, and leaves the active project, the
\* status, pendingProjects and currentIndex as they were.
C9_BlockersClick ==
  [][\A u \in AllUsers, g \in Gids, v \in BlockerValues :
       LET s == conv[u]
           s2 == conv'[u]
       IN (s.exists /\ s.step = "awaiting_blockers" /\ BlockersClick(u, g, v)) =>
            /\ s2.hasBlockers = (IF v = "yes" THEN "true" ELSE "false")
            /\ s2.step = "awaiting_advances"
            /\ sent' = <<Msg(u, "advances_prompt", UndefI)>>
            /\ s2.currentProjectGid = s.currentProjectGid
            /\ s2.currentProjectName = s.currentProjectName
            /\ s2.currentProjectPmoId = s.currentProjectPmoId
            /\ s2.status = s.status
            /\ s2.pendingProjects = s.pendingProjects
            /\ s2.currentIndex = s.currentIndex]_vars

\* A yes was clicked after an at_risk status: the item waits for the text.
C9_Witness ==
  LET s == conv["U1"]
  IN /\ s.exists /\ s.step = "awaiting_advances"
     /\ s.status = "at_risk" /\ s.hasBlockers = "true"
     /\ HasQueue(s) /\ s.currentProjectGid = Active(s).gid
     /\ sent = <<Msg("U1", "advances_prompt", UndefI)>>

\* C10: a status or blockers click for project g on an item that does not
\* name g as the active project (no item, an expired or cleared one, or one
\* on another project) leaves an item whose active project is g.
C10_ClickFallsBackToPayload ==
  [][\A u \in AllUsers, g \in Gids :
       (/\ conv[u].currentProjectGid # g
        /\ \/ \E v \in Statuses : StatusClick(u, g, v)
           \/ \E v \in BlockerValues : BlockersClick(u, g, v))
         => conv'[u].currentProjectGid = g]_vars

\* C11: every user item with onboarded = true has a name and a time zone that
\* are not null, whatever messages, time-zone clicks (also on earlier
\* prompts) and resets came before.
C11_OnboardedHasNameAndZone ==
  \A u \in AllUsers :
    (users[u].exists /\ users[u].onboarded = "true") =>
      /\ users[u].asanaName \notin {"undefined", "null"}
      /\ users[u].timezone \notin {"undefined", "null"}

\* The messages of msgs that go to u, in order.
MsgsTo(msgs, u) == SelectSeq(msgs, LAMBDA m : m.to = u)

Snoozed(s, t) == Defined(s.snoozeUntil) /\ s.snoozeUntil > t

\* An active item with an active project, not snoozed, last prompted an hour
\* or more before t.
Overdue(s, t) ==
  /\ isInUpdateFlow(s)
  /\ Defined(s.currentProjectGid)
  /\ ~Snoozed(s, t)
  /\ Defined(s.lastPromptAt)
  /\ t - s.lastPromptAt >= ReminderThreshold

\* The updates table holds an update of the active project newer than the
\* last prompt.
NewerUpdate(s, table) ==
  \E x \in table : x.pk = s.currentProjectGid /\ x.sk > s.lastPromptAt

\* C12: the sweep sends an overdue item without a newer update the prompt of
\* its step (the status buttons at awaiting_status, a text reminder at
\* awaiting_blockers and awaiting_advances), sets lastPromptAt to the sweep
\* time and leaves step, queue, index, active project and answers alone; an
\* item prompted less than an hour before gets nothing and stays as it is.
C12_SweepReminds ==
  [][Sweep =>
       \A u \in AllUsers :
         LET s == conv[u]
             s2 == conv'[u]
         IN /\ (Overdue(s, now) /\ ~NewerUpdate(s, updates)) =>
                 /\ MsgsTo(sent', u) =
                      <<Msg(u, CASE s.step = "awaiting_status" -> "update_request"
                                 [] s.step = "awaiting_blockers" -> "reminder_blockers"
                                 [] s.step = "awaiting_advances" -> "reminder_advances",
                            s.currentProjectGid)>>
                 /\ s2.lastPromptAt = now
                 /\ s2.exists /\ s2.step = s.step
                 /\ s2.pendingProjects = s.pendingProjects
                 /\ s2.currentIndex = s.currentIndex
                 /\ s2.currentProjectGid = s.currentProjectGid
                 /\ s2.currentProjectName = s.currentProjectName
                 /\ s2.status = s.status
                 /\ s2.hasBlockers = s.hasBlockers
                 /\ s2.snoozeUntil = s.snoozeUntil
            /\ (/\ isInUpdateFlow(s) /\ Defined(s.lastPromptAt)
                /\ now - s.lastPromptAt < ReminderThreshold) =>
                 /\ MsgsTo(sent', u) = <<>>
                 /\ s2 = s]_vars

\* A sweep has just reminded a user who owes the text of an update.
C12_Witness ==
  LET s == conv["U1"]
  IN /\ now >= ReminderThreshold
     /\ s.exists /\ s.step = "awaiting_advances"
     /\ s.status \in Statuses
     /\ s.lastPromptAt = now
     /\ sent = <<Msg("U1", "reminder_advances", s.currentProjectGid)>>

\* C13: when the sweep finds an update of the active project of an overdue
\* item that is newer than lastPromptAt, it sends no reminder for that
\* project; with a next queue entry the item moves to awaiting_status on that
\* entry, answers reset, and the status request for it is sent; without one
\* the item is cleared and nothing is sent.
C13_SweepAdvances ==
  [][Sweep =>
       \A u \in AllUsers :
         LET s == conv[u]
             s2 == conv'[u]
             idx == IF s.currentIndex >= 0 THEN s.currentIndex ELSE 0
         IN (Overdue(s, now) /\ NewerUpdate(s, updates)) =>
              IF idx + 1 < Len(s.pendingProjects)
              THEN /\ s2.exists /\ s2.step = "awaiting_status"
                   /\ s2.pendingProjects = s.pendingProjects
                   /\ s2.currentIndex = idx + 1
                   /\ s2.currentProjectGid = s.pendingProjects[idx + 2].gid
                   /\ s2.currentProjectName = s.pendingProjects[idx + 2].name
                   /\ s2.status = "null" /\ s2.hasBlockers = "null"
                   /\ MsgsTo(sent', u) =
                        <<Msg(u, "update_request", s.pendingProjects[idx + 2].gid)>>
              ELSE /\ s2.cleared = "true" /\ ~isInUpdateFlow(s2)
                   /\ s2.pendingProjects = <<>>
                   /\ MsgsTo(sent', u) = <<>>]_vars

\* U1 never answered, and a sweep has moved U1's item on to the second entry
\* of the queue because U2 reported the first one.
C13_Witness ==
  LET s == conv["U1"]
  IN /\ closedAt["U1"] = UndefI
     /\ s.exists /\ s.step = "awaiting_status" /\ s.currentIndex = 1
     /\ s.lastPromptAt = now /\ now >= ReminderThreshold
     /\ \E x \in updates : x.pk = s.pendingProjects[1].gid /\ x.pmSlackId = "U2"
     /\ \E i \in 1..Len(sent) :
          sent[i] = Msg("U1", "update_request", s.pendingProjects[2].gid)

\* C14: when the processing of one active item fails during a sweep, every
\* other active item is still reminded or advanced as a sweep without the
\* failure does it.
C14_SweepIsolatesFailures ==
  [][\A failed \in AllUsers :
       SweepFailing(failed) =>
         \A u \in getActiveConversationStates(conv) \ {failed} :
           LET r == SweepState(conv[u], updates, u, now)
           IN /\ conv'[u] = r.conv
              /\ MsgsTo(sent', u) = r.msgs]_vars

\* C15: a snooze phrase received at an in-flow step sets snoozeUntil one hour
\* after the receipt and changes neither step, queue, index, active project
\* nor answers, and writes no update; a sweep that runs before snoozeUntil
\* sends the user nothing and leaves the item as it is; and a step that ends
\* the snooze before its time leaves no in-flow item or one prompted at that
\* very moment, which no sweep reminds within the hour either.
C15_SnoozeSuppressesReminders ==
  [][\A u \in AllUsers :
       LET s == conv[u]
           s2 == conv'[u]
       IN /\ (isInUpdateFlow(s) /\ Message(u, "mas tarde", 0)) =>
               /\ s2.snoozeUntil = now + 1
               /\ s2.exists /\ s2.step = s.step
               /\ s2.pendingProjects = s.pendingProjects
               /\ s2.currentIndex = s.currentIndex
               /\ s2.currentProjectGid = s.currentProjectGid
               /\ s2.currentProjectName = s.currentProjectName
               /\ s2.currentProjectPmoId = s.currentProjectPmoId
               /\ s2.status = s.status
               /\ s2.hasBlockers = s.hasBlockers
               /\ s2.lastPromptAt = s.lastPromptAt
               /\ updates' = updates
               /\ sent' = <<Msg(u, "snooze_ack", UndefI)>>
          /\ ((Sweep \/ \E failed \in AllUsers : SweepFailing(failed))
              /\ isInUpdateFlow(s) /\ Snoozed(s, now)) =>
               /\ s2 = s
               /\ MsgsTo(sent', u) = <<>>
          /\ (/\ isInUpdateFlow(s) /\ Snoozed(s, now)
              /\ now' = now
              /\ isInUpdateFlow(s2) /\ ~Snoozed(s2, now)) =>
               s2.lastPromptAt = now]_vars

\* U2 put the request off an hour after it came; the sweep of that hour
\* reminded U1 and sent U2 nothing.
C15_Witness ==
  LET s == conv["U2"]
  IN /\ isInUpdateFlow(s) /\ Snoozed(s, now)
     /\ now - s.lastPromptAt >= ReminderThreshold
     /\ conv["U1"].lastPromptAt = now
     /\ sent = <<Msg("U1", "update_request", conv["U1"].currentProjectGid)>>

\* The projects the cache gives to user u that are not completed, in any
\* spelling, and have no update of today.
DueToday(u) ==
  {g \in Gids :
     /\ cache[g].exists
     /\ cache[g].responsable = users[u].asanaName
     /\ cache[g].status \notin {"completed", "Completed", "COMPLETED"}
     /\ ~\E x \in updates :
           x.pk = g /\ x.sk \div HoursPerDay = now \div HoursPerDay}

\* Ascending ordinals, the entries without an ordinal last.
InOrdinalOrder(q) ==
  \A i, j \in 1..Len(q) :
     i < j => \/ q[j].pmoId = NullI
              \/ q[i].pmoId # NullI /\ q[i].pmoId <= q[j].pmoId

\* C16: the queue a scheduled outreach creates for a user holds exactly the
\* user's cached projects that are not completed and have no update today, once
\* each, by ascending business-id ordinal with the projects lacking an ordinal
\* last; the created item is at awaiting_status, index 0, with the first entry
\* as the active project, and the one message sent to the user is the status
\* prompt for that entry.
C16_OutreachQueue ==
  [][\A hour \in LocalHours : Outreach(hour) =>
       \A u \in AllUsers : conv'[u] # conv[u] =>
          LET q == conv'[u].pendingProjects
          IN /\ {q[i].gid : i \in 1..Len(q)} = DueToday(u)
             /\ Len(q) = Cardinality(DueToday(u))
             /\ InOrdinalOrder(q)
             /\ conv'[u].step = "awaiting_status"
             /\ conv'[u].currentIndex = 0
             /\ conv'[u].currentProjectGid = q[1].gid
             /\ MsgsTo(sent', u) = <<Msg(u, "update_request", q[1].gid)>>]_vars

\* An outreach has built a queue of two projects against the order of the
\* cache, the project without a business id last.
C16_Witness ==
  /\ pulsed
  /\ conv["U1"].step = "awaiting_status"
  /\ Len(conv["U1"].pendingProjects) = 2
  /\ conv["U1"].pendingProjects[1].gid > conv["U1"].pendingProjects[2].gid
  /\ conv["U1"].pendingProjects[2].pmoId = NullI
  /\ \E i \in 1..Len(sent) : sent[i] = Msg("U1", "update_request", conv["U1"].currentProjectGid)

\* C17: a scheduled outreach leaves the item of a user who is in an update flow,
\* or whose filtered queue is empty, as it was and sends that user nothing.
C17_OutreachSkips ==
  [][\A hour \in LocalHours : Outreach(hour) =>
       \A u \in AllUsers :
          (isInUpdateFlow(conv[u]) \/ DueToday(u) = {}) =>
             conv'[u] = conv[u] /\ MsgsTo(sent', u) = <<>>]_vars

\* The pulse of the second day has opened a cycle for U2 and has left U1's item
\* of the first day, with its queue, as it was.
C17_Witness ==
  /\ pulsed
  /\ now = HoursPerDay
  /\ isInUpdateFlow(conv["U1"])
  /\ conv["U1"].lastPromptAt = 0
  /\ DueToday("U1") # {}
  /\ sent = <<Msg("U2", "update_request", conv["U2"].currentProjectGid)>>

\* C18: help, my-projects, a business-id lookup and a free-text project search
\* leave the stored item of the user who writes them as it was, whatever its
\* step; reset deletes the user record and leaves every item and every update
\* as it was.
C18_CommandsKeepState ==
  [][\A u \in AllUsers, n \in ResultCounts :
       /\ \A text \in {"ayuda", "mis proyectos", "PMO-911", "proyecto acme"} :
             (users[u].exists /\ users[u].onboarded = "true" /\ Message(u, text, n))
                => conv'[u] = conv[u]
       /\ (users[u].exists /\ users[u].onboarded = "true" /\ Message(u, "reset", n))
             => ~users'[u].exists /\ conv' = conv /\ updates' = updates]_vars

\* The projects a cycle fetched: not archived, detail obtained.
Fetched(source) == {g \in Gids : ~source[g].archived /\ source[g].detail}

IsCompleted(source, g) == source[g].status \in {"completed", "Completed", "COMPLETED"}

IsBare(source, g) == source[g].responsable = "null" /\ source[g].pmoId = NullI

\* The record that holds what the cycle fetched of project g.
FetchedRecord(source, g) ==
  [exists |-> TRUE, name |-> Name(g), responsable |-> source[g].responsable,
   status |-> source[g].status, pmoId |-> source[g].pmoId]

\* C19: in a refresh cycle every fetched, non-archived project falls under one
\* rule: completed in any spelling, its record is deleted and it counts as
\* deleted; else without owner and business id, its record is left as it was
\* and it counts as skipped; else its record is overwritten with the fetched
\* data and it counts as updated. A cached project fetched as completed has no
\* record after the cycle.
C19_RefreshRules ==
  [][Refresh(reported') =>
       LET del == {g \in Fetched(reported') : IsCompleted(reported', g)}
           skip == {g \in Fetched(reported') \ del : IsBare(reported', g)}
           upd == (Fetched(reported') \ del) \ skip
       IN /\ \A g \in del : ~cache'[g].exists
          /\ \A g \in skip : cache'[g] = cache[g]
          /\ \A g \in upd : cache'[g] = FetchedRecord(reported', g)
          /\ summary'.updated = Cardinality(upd)
          /\ summary'.deleted = Cardinality(del)
          /\ summary'.skipped = Cardinality(skip)]_vars

\* A cycle has deleted the record of the first project, which the source
\* reports completed without owner and business id, and has overwritten the
\* record of the second.
C19_Witness ==
  /\ reported # <<>>
  /\ reported[1] = SourceProject(FALSE, TRUE, "null", "COMPLETED", NullI)
  /\ reported[2] = SourceProject(FALSE, TRUE, "other", "At Risk", NullI)
  /\ summary.updated = 1 /\ summary.deleted = 1 /\ summary.skipped = 0
  /\ ~cache[1].exists
  /\ cache[2] = FetchedRecord(reported, 2)

\* C20: after a refresh cycle every cache record is of a project the cycle saw
\* as not archived and not completed and holds the data fetched in the cycle;
\* a cached project the source now reports as archived, completed or without
\* owner and business id has no record.
C20_CacheReflectsCycle ==
  [][Refresh(reported') =>
       \A g \in Gids :
          /\ cache'[g].exists =>
                /\ g \in Fetched(reported')
                /\ ~IsCompleted(reported', g)
                /\ cache'[g] = FetchedRecord(reported', g)
          /\ (cache[g].exists /\ (\/ reported'[g].archived
                                   \/ IsCompleted(reported', g)
                                   \/ IsBare(reported', g)))
                => ~cache'[g].exists]_vars

\* What a second cycle against the source of the last one returns.
SecondRun ==
  refreshLoop([cache |-> cache, updated |-> 0, deleted |-> 0, skipped |-> 0],
              getAllActiveProjectsWithResponsable(reported), 1)

\* C21: after a refresh cycle, a second cycle against the unchanged source
\* leaves the cache as the first left it and returns the first cycle's updated
\* and skipped counts with deleted 0.
C21_RefreshIdempotent ==
  reported # <<>> =>
     /\ SecondRun.cache = cache
     /\ SecondRun.updated = summary.updated
     /\ SecondRun.deleted = 0
     /\ SecondRun.skipped = summary.skipped

\* The source answered the call with a rate-limit error that carries the header.
RateLimited(header) == CallAnswered(Answer(429, header))

\* A call is over when it has returned a result or thrown an error.
CallOver == call.phase \in {"returned", "thrown"}

\* The ceiling, the errors that are not retried and the end of the loop.
RetryCeiling ==
  /\ [][/\ \A header \in {"undefined", "0", "2", "3"} :
             RateLimited(header) =>
                IF call.attempt < Retries
                THEN call'.phase = "sleeping"
                ELSE call'.phase = "thrown" /\ call'.status = 429
        /\ \A status \in {403, 500} :
             CallAnswered(Answer(status, "undefined")) =>
                call'.phase = "thrown" /\ call'.status = status
        /\ CallWoken => call'.attempt = call.attempt + 1 /\ call'.attempt <= Retries]_vars
  /\ <>CallOver

Listed == {g \in Gids : ~cycle.source[g].archived}

\* C22: a detail call that fails, with any error or with a rate-limit error
\* past the last retry, drops that project only: the cycle does not fail for
\* it, every other listed project of its batch and of the later batches is
\* classified, the record of the dropped project is left as it was, and the
\* cycle returns 200 with the counts of the classified projects.
C22_DetailFailureDropsOne ==
  /\ cycle.pc = "failed" => cycle.listCall.phase = "thrown"
  /\ cycle.pc = "done" =>
        /\ returned = 200
        /\ summary.updated + summary.deleted + summary.skipped
              = Cardinality(Listed \ cycle.dropped)
        /\ \A g \in Listed :
              IF g \in cycle.dropped THEN cache[g] = FullCache[g]
              ELSE IF IsCompleted(cycle.source, g) THEN ~cache[g].exists
              ELSE cache[g] = FetchedRecord(cycle.source, g)

\* The detail call of project 1 failed; project 2, of the same batch, was
\* fetched and its record overwritten, and the cycle returned 200.
C22_Witness ==
  /\ cycle.pc = "done"
  /\ cycle.dropped = {1}
  /\ cycle.layout[2] = 1
  /\ cycle.source[2].status = "At Risk"
  /\ cache[2] = FetchedRecord(cycle.source, 2)
  /\ cache[1] = FullCache[1]
  /\ returned = 200

\* C23: when a listing call fails, the cycle fails with an error result and
\* has made no upsert and no delete: the cache is the cache of before the
\* cycle.
C23_ListingFailureFailsCycle ==
  /\ cycle.pc \in {"listing", "details", "fetched", "failed"} => cache = FullCache
  /\ cycle.pc = "failed" => returned = 500 /\ summary = NoSummary
  /\ (cycle.listCall.phase = "thrown") = (cycle.pc = "failed")

\* The listing of the second workspace was rate limited past the last retry,
\* after the details of the first workspace had been fetched.
C23_Witness ==
  /\ cycle.pc = "failed"
  /\ cycle.workspace = 2
  /\ cycle.allProjects # <<>>
  /\ cycle.listCall.status = 429
  /\ cycle.listCall.attempt = Retries
  /\ returned = 500

\* The detail calls whose request is with the source.
InFlight == CountIn(batch.calls, LAMBDA c : c.phase = "calling")

\* The detail calls that have started and are not over, those that sleep
\* before a retry included.
Unfinished == CountIn(batch.calls, LAMBDA c : ~Settled(c))

Recorded(slot, state) ==
  IF slot.kind = "status" THEN state.status = slot.value
  ELSE state.hasBlockers = (IF slot.value = "yes" THEN "true" ELSE "false")

\* C26: a conversation write is an unguarded read-modify-write: what an
\* invocation puts is made of what it read and of its own answer only, and it
\* replaces the stored item whatever another invocation wrote in between; so
\* two clicks of one user that interleave can leave a stored state that lacks
\* the answer of one of them.
C26_UnguardedWrite ==
  [][\A i \in Invocations :
       ClickStored(i) =>
         conv'[Clicker] =
           dynamoSetConversationState(
             mergedItem(inflight[i].base, clickFields(inflight[i], now), Clicker),
             now)]_vars

\* Both invocations are over, one recorded a status and the other a blockers
\* answer, and the stored state lacks the status.
C26_Witness ==
  \E a, b \in Invocations :
    /\ a # b
    /\ inflight[a].pc = "done" /\ inflight[a].kind = "status"
    /\ inflight[b].pc = "done" /\ inflight[b].kind = "blockers"
    /\ Recorded(inflight[b], conv[Clicker])
    /\ ~Recorded(inflight[a], conv[Clicker])


\* C27: a failing store call makes the invocation fail: whenever a read, a
\* write or a clear fails during an inbound invocation, the invocation ends
\* in an error, and does not go on to answer 200.
C27_StoreFailureFailsInvocation ==
  [][\A u \in AllUsers : StoreFailing(u) => returned' \in {500, Thrown}]_vars

\* C28: the user is always answered: a direct message in which a call fails
\* (the agent, or the store) is followed by a message to the user.
C28_UserAlwaysAnswered ==
  [][\A u \in AllUsers, text \in AllTexts :
       (\/ MessageUserReadFailing(u, text)
        \/ \E n \in ResultCounts : MessageAgentFailing(u, text, n))
       => MsgsTo(sent', u) # <<>>]_vars


\* C29: the first message of a user with no User item creates the item with
\* onboarded = false and sends the name prompt; a time-zone click stores the
\* time zone and sets onboarded = true; neither touches the conversations.
C29_OnboardingLeavesConversation ==
  /\ [][\A u \in AllUsers, text \in AllTexts, n \in ResultCounts :
          Message(u, text, n) /\ ~users[u].exists
          => /\ users'[u].exists /\ users'[u].onboarded = "false"
             /\ sent' = <<Msg(u, "onboarding_name", UndefI)>>
             /\ conv' = conv]_vars
  /\ [][\A u \in AllUsers, tz \in Timezones :
          TimezoneClick(u, tz)
          => /\ users'[u].timezone = tz /\ users'[u].onboarded = "true"
             /\ conv' = conv]_vars

\* A user created by a first message has chosen a time zone and is
\* onboarded, and holds no conversation item.
C29_Witness ==
  /\ users["U1"].exists /\ users["U1"].onboarded = "true"
  /\ users["U1"].asanaName # "undefined"
  /\ users["U1"].timezone \in Timezones
  /\ sent = <<Msg("U1", "onboarding_complete", UndefI)>>
  /\ conv["U1"] = NoState

\* The text has fewer than two characters once trimmed.
TooShort(text) == text = "1"

\* C30: while a user who is not onboarded has no stored name, an answer of
\* fewer than two characters leaves the User item as it is and is answered by
\* the re-prompt, the invocation ending normally; an answer of two characters
\* or more is stored as the name and answered by the time-zone prompt.
C30_NameLength ==
  [][\A u \in AllUsers, text \in AllTexts, n \in ResultCounts :
       /\ Message(u, text, n)
       /\ users[u].exists /\ users[u].onboarded # "true"
       /\ users[u].asanaName = "undefined"
       => IF TooShort(text)
          THEN /\ users' = users
               /\ sent' = <<Msg(u, "name_too_short", UndefI)>>
               /\ returned' = 200
          ELSE /\ users'[u] = [users[u] EXCEPT !.asanaName = AsanaNameOf(text)]
               /\ sent' = <<Msg(u, "onboarding_timezone", UndefI)>>]_vars

\* A user who gave a name and was sent the time-zone prompt earlier, and
\* whose next name answer, after a profile reset, was too short.
C30_Witness ==
  /\ tzPrompted["U1"]
  /\ users["U1"].exists /\ users["U1"].asanaName = "undefined"
  /\ sent = <<Msg("U1", "name_too_short", UndefI)>>


\* C31: every write of a conversation item, the clearing write included,
\* stores an expiry exactly one hour after the time of the write: the expiry
\* is ahead of the clock when the item is written, and a stored item never
\* carries an expiry more than one hour ahead.
C31_WritesCarryExpiry ==
  /\ [](\A u \in AllUsers :
          conv[u].exists => conv[u].expiresAt \in 0..(now + StateTtl))
  /\ [][\A u \in AllUsers :
          conv'[u] # conv[u] /\ conv'[u].exists
          => conv'[u].expiresAt = now + StateTtl /\ conv'[u].expiresAt > now]_vars

\* The terminal marker was written after the clock moved, with its own expiry.
C31_Witness ==
  /\ now > 0
  /\ conv["U1"].exists /\ conv["U1"].cleared = "true"
  /\ conv["U1"].expiresAt = now + StateTtl


\* C32: once the execution-time ceiling of the cycle is near, the batch in
\* flight is finished and no new batch is started.
C32_NoBatchPastCeiling ==
  [][NextBatch => ~batch.late]_vars


\* The item a user saved with the slackUserId alone reads back as.
Defaulted(item) ==
  /\ item.exists
  /\ item.onboarded = "false" /\ item.asanaEmail = "null" /\ item.timezone = "null"

\* C33: a user saved with only the slackUserId set reads back with
\* onboarded = false, asanaEmail = null and timezone = null; the save returns
\* that item and a read returns the stored item, neither of them an error.
C33_SaveReadDefaults ==
  /\ [][\A u \in AllUsers :
          SaveUser(u, NewUser)
          => Defaulted(getUser(users', u)) /\ returned' = getUser(users', u)]_vars
  /\ [][\A u \in AllUsers : GetUser(u) => returned' = users[u]]_vars

\* The user saved with the slackUserId alone was read back.
C33_Witness ==
  /\ Defaulted(users["U1"])
  /\ returned = users["U1"]
  /\ users["U2"].exists /\ ~Defaulted(users["U2"])


\* The queue of the item has an entry after the current one.
HasNext(s) ==
  s.exists /\ Defined(s.currentIndex) /\ s.currentIndex + 1 < Len(s.pendingProjects)

\* The item the advance is to leave, from the item it found.
AdvancedItem(s, t) ==
  LET next == s.pendingProjects[s.currentIndex + 2]
  IN [s EXCEPT
        !.currentIndex = s.currentIndex + 1,
        !.currentProjectGid = next.gid,
        !.currentProjectName = next.name,
        !.currentProjectPmoId = next.pmoId,
        !.status = "null",
        !.hasBlockers = "null",
        !.blockerDescription = "null",
        !.snoozeUntil = NullI,
        !.step = "awaiting_status",
        !.lastPromptAt = t,
        !.expiresAt = t + StateTtl]

StatusPrompts(msgs, u) ==
  SelectSeq(msgs, LAMBDA m : m.to = u /\ m.kind = "update_request")

\* C34: when the queue has a next entry, the advance moves the index by one,
\* copies the entry into the active-project fields, resets status, hasBlockers
\* and blockerDescription to null, clears the snooze, goes back to
\* awaiting_status with lastPromptAt = now, keeps pendingProjects, and sends
\* one status prompt, for the new entry; the advance of the inbound handler
\* and the advance of the reminder sweep give the same result on the same item.
C34_AdvanceToNext ==
  /\ [](\A u \in AllUsers :
          HasNext(conv[u])
          => LET inbound == advanceToNextProject(conv[u], conv[u], u, now)
                 sweep == reminderAdvanceToNextProject(conv[u], conv[u], u, now)
                 next == conv[u].pendingProjects[conv[u].currentIndex + 2]
             IN /\ inbound.advanced
                /\ inbound.conv = AdvancedItem(conv[u], now)
                /\ inbound.conv.pendingProjects = conv[u].pendingProjects
                /\ inbound.msgs = <<Msg(u, "update_request", next.gid)>>
                /\ sweep = inbound)
  /\ [][\A u \in AllUsers :
          /\ HasNext(conv[u])
          /\ conv'[u].exists /\ conv'[u].currentIndex = conv[u].currentIndex + 1
          => /\ conv'[u] = AdvancedItem(conv[u], now)
             /\ StatusPrompts(sent', u)
                  = <<Msg(u, "update_request", conv'[u].currentProjectGid)>>]_vars

\* An advance has happened: the second entry of the queue is the active
\* project, its answers are empty and its status prompt has just been sent.
C34_Witness ==
  \E u \in AllUsers :
    /\ conv[u].exists /\ conv[u].currentIndex = 1
    /\ conv[u].step = "awaiting_status"
    /\ conv[u].currentProjectGid = conv[u].pendingProjects[2].gid
    /\ conv[u].status = "null" /\ conv[u].hasBlockers = "null"
    /\ conv[u].lastPromptAt = now
    /\ StatusPrompts(sent, u) = <<Msg(u, "update_request", conv[u].currentProjectGid)>>


\* C35: when the item of a flow is cleared because its queue is exhausted,
\* every project of the queue has an update written during the flow: none
\* was passed over, whatever buttons the user clicked.
C35_NoProjectPassedOver ==
  [][\A u \in AllUsers :
       conv[u].exists /\ conv[u].cleared # "true" /\ conv'[u].cleared = "true"
       => \A i \in 1..Len(conv[u].pendingProjects) :
            \E x \in updates' : x.pk = conv[u].pendingProjects[i].gid]_vars


\* C36: the write of a sweep that re-prompts changes lastPromptAt and the
\* expiry of the item stored at that moment and nothing else: what an
\* interaction of the user wrote since the scan is kept.
C36_SweepKeepsNewerAnswers ==
  [][\A u \in AllUsers :
       /\ SweepLooped
       /\ u \in DOMAIN inflight.states
       /\ ReminderFor(inflight.states[u], u) # <<>>
       /\ MsgsTo(sent', u) = ReminderFor(inflight.states[u], u)
       => conv'[u] = [conv[u] EXCEPT !.lastPromptAt = now,
                                     !.expiresAt = now + StateTtl]]_vars


\* C37: the store's one-hour expiry never removes an item before its first
\* reminder is due: when the clock reaches the time at which an item in the
\* flow is overdue (prompted an hour or more ago, any snooze elapsed), the
\* item is still in the store for the next sweep to examine.
C37_StalledStateOutlivesExpiry ==
  [][\A u \in AllUsers :
       now' # now /\ Overdue(conv[u], now') => conv'[u].exists]_vars


\* The texts that command handling takes: help, reset, my-projects, a snooze
\* phrase, a text that yields a search query, a text with a business id.
TakenByCommand(text) ==
  \/ text \in {"ayuda", "reset", "mis proyectos"}
  \/ text = "mas tarde"
  \/ text = "proyecto acme"
  \/ text = "PMO-911"

\* C38: at awaiting_advances a message of an onboarded user that is help,
\* reset, my-projects, a snooze phrase, a search or a business-id lookup is
\* handled as that command: no update is written and the step stays
\* awaiting_advances; a text is recorded as the narrative only if it is none
\* of these.
C38_CommandsBeforeNarrative ==
  [][\A u \in AllUsers, text \in AllTexts, n \in ResultCounts :
       /\ users[u].exists /\ users[u].onboarded = "true"
       /\ conv[u].exists /\ conv[u].step = "awaiting_advances"
       /\ Message(u, text, n)
       => /\ TakenByCommand(text)
             => /\ updates' = updates /\ saves' = saves
                /\ conv'[u].exists /\ conv'[u].step = "awaiting_advances"
                /\ MsgsTo(sent', u) # <<>>
                /\ MsgsTo(sent', u)[1].kind # "update_registered"
          /\ updates' # updates => ~TakenByCommand(text)]_vars

\* A search was answered at awaiting_advances, and no update has been written.
C38_Witness ==
  /\ conv["U1"].exists /\ conv["U1"].step = "awaiting_advances"
  /\ Defined(conv["U1"].searchResults)
  /\ MsgsTo(sent, "U1") = <<Msg("U1", "search_results", UndefI)>>
  /\ updates = {}


\* The projects whose detail call failed in a cycle.
DetailFailed(source) == {g \in Gids : ~source[g].archived /\ ~source[g].detail}

\* C39: at the end of every refresh cycle that returns a summary, updated +
\* deleted + skipped equals the reported total, which equals the number of
\* non-archived projects whose detail call succeeded; a project whose detail
\* call failed is counted in none of the four figures.
C39_CountsAddUp ==
  /\ [](summary # NoSummary =>
          summary.updated + summary.deleted + summary.skipped = summary.totalProjects)
  /\ [][Refresh(reported') =>
          /\ returned' = 200
          /\ summary'.updated + summary'.deleted + summary'.skipped
                = summary'.totalProjects
          /\ summary'.totalProjects = Cardinality(Fetched(reported'))
          /\ summary'.totalProjects
                = Cardinality({g \in Gids : ~reported'[g].archived})
                    - Cardinality(DetailFailed(reported'))]_vars

\* A cycle in which the detail call of project 1 failed and project 2 was
\* skipped returned a total of one.
C39_Witness ==
  /\ reported # <<>>
  /\ DetailFailed(reported) = {1}
  /\ IsBare(reported, 2) /\ ~IsCompleted(reported, 2) /\ ~reported[2].archived
  /\ summary = [totalProjects |-> 1, updated |-> 0, deleted |-> 0, skipped |-> 1]
  /\ returned = 200

\* C40: a stored conversation state that carries the terminal marker
\* cleared = true is never in an in-flow step: a flow started after a clear, by
\* the scheduled outreach or by a button click, is stored without the marker.
C40_ClearedNeverInFlow ==
  \A u \in AllUsers :
     conv[u].exists /\ conv[u].cleared = "true" => ~isInUpdateFlow(conv[u])

====
